---- MODULE Spec2Model ----
(***************************************************************************)
(* Connect-4 engine (amchugh/connect-4): the bit-packed Board of           *)
(* src/board.rs and the game loop of src/main.rs.                          *)
(*                                                                         *)
(* A Board is a u64.  It is modelled as the set of its 1-bits, a subset of *)
(* 0..63, so that equality of model boards is equality of the u64 and the  *)
(* shifts and masks of the code are set operations on bit positions.       *)
(***************************************************************************)
EXTENDS Integers, Sequences, FiniteSets, TLC

\* src/board.rs:3-4
ROWS == 6
COLUMNS == 7

\* enum Piece
Empty == "Empty"
Red == "Red"
Blue == "Blue"
Piece == {Empty, Red, Blue}

\* Option<Piece>::None, Option<usize>::None
None == "None"

\* Piece::opponent (called on Red or Blue only in the model; Empty panics)
opponent(piece) == IF piece = Red THEN Blue ELSE Red

Rows == 0 .. (ROWS - 1)
Columns == 0 .. (COLUMNS - 1)

\* ------------------------------------------------------------- u64 words
\* Number of bits of a machine word
WORD_BITS == 64
BitIndex == 0 .. (WORD_BITS - 1)

\* The bits of the small number n (n < 16) as a set of bit positions.
BitsOf(n) == {k \in 0 .. 3 : (n \div (2 ^ k)) % 2 = 1}

\* (n as u64) << sh for sh < 64: bits shifted past bit 63 are lost.
Shl(n, sh) == {sh + k : k \in BitsOf(n)} \cap BitIndex

\* Bit sh of a word, as 0 or 1
Bit(word, sh) == IF sh \in word THEN 1 ELSE 0

\* (word >> sh) & 0b111, as a number
ShrAnd7(word, sh) ==
    Bit(word, sh) + 2 * Bit(word, sh + 1) + 4 * Bit(word, sh + 2)

\* A shift amount as the release build takes it (wrapping at the word size).
WrapShift(sh) == sh % WORD_BITS

\* ----------------------------------------------------------------- Board
\* Board::EMPTY, Board::new
EMPTY == {}

\* Width of the column-height field and of one packed column.
HEIGHT_BITS == 3
COLUMN_BITS == 9

\* Board::column_height: (self.0 >> (column * 9)) & 0b111
column_height(b, column) == ShrAnd7(b, column * COLUMN_BITS)

\* Board::get_raw: bit (column * 9 + row + 3), 0 is Red and 1 is Blue
get_raw(b, column, row) ==
    IF (column * COLUMN_BITS + row + HEIGHT_BITS) \in b THEN Blue ELSE Red

\* Board::get_checked
get_checked(b, column, row) ==
    IF column_height(b, column) <= row THEN Empty ELSE get_raw(b, column, row)

\* set_blue with the bit one row too high
set_blue_row_above(b, column, height) ==
    b \cup Shl(1, WrapShift(column * COLUMN_BITS + HEIGHT_BITS + height + 1))

\* Board::set_blue: self.0 |= 1 << (column * 9 + 3 + height)
set_blue(b, column, height) ==
    b \cup Shl(1, WrapShift(column * COLUMN_BITS + HEIGHT_BITS + height))

\* Board::set_column_height: (self.0 & !mask) | (height << (column * 9))
set_column_height(b, column, height) ==
    (b \ Shl(7, column * COLUMN_BITS)) \cup Shl(height, column * COLUMN_BITS)

\* Outcome of a call that may panic.  `violated` records that a debug
\* assertion of the call was false in a build that does not check it.
Returned(b) == [panic |-> FALSE, violated |-> FALSE, board |-> b]
Panicked(b) == [panic |-> TRUE, violated |-> FALSE, board |-> b]
Unchecked(r) == [r EXCEPT !.violated = TRUE]

\* The body of with_place after its three leading debug assertions.
with_place_body(b, column, piece, dbg) ==
    LET height == column_height(b, column)
        b1 == set_column_height(b, column, height + 1)
    IN  CASE piece = Red ->
               IF dbg /\ get_checked(b1, column, height) # Red
               THEN Panicked(b1) ELSE Returned(b1)
          [] piece = Blue -> Returned(set_blue(b1, column, height))
          [] OTHER -> Panicked(b1)

\* The three debug assertions of with_place: a piece that is not Empty, a
\* column on the board, a column that is not full.
with_place_asserts(b, column, piece) ==
    /\ piece # Empty
    /\ column < COLUMNS
    /\ column_height(b, column) < ROWS - 1

\* Board::with_place(&mut self, column, piece) in a build whose
\* debug_assertions flag is dbg.  .board is self when the call ends.
with_place(b, column, piece, dbg) ==
    IF with_place_asserts(b, column, piece)
    THEN with_place_body(b, column, piece, dbg)
    ELSE IF dbg THEN Panicked(b)
         ELSE Unchecked(with_place_body(b, column, piece, dbg))

\* Board::place(&self, column, piece): with_place on a copy
place(b, column, piece, dbg) == with_place(b, column, piece, dbg)

\* Board::num_pieces_played
RECURSIVE SumHeights(_, _)
SumHeights(b, column) ==
    IF column = COLUMNS THEN 0
    ELSE column_height(b, column) + SumHeights(b, column + 1)

num_pieces_played(b) == SumHeights(b, 0)

\* Board::valid_moves: the columns, ascending, with column_height < ROWS - 1
RECURSIVE valid_moves_from(_, _)
valid_moves_from(b, column) ==
    IF column = COLUMNS THEN <<>>
    ELSE (IF column_height(b, column) < ROWS - 1 THEN <<column>> ELSE <<>>)
         \o valid_moves_from(b, column + 1)

valid_moves(b) == valid_moves_from(b, 0)

\* ------------------------------------------------------- array conversion
\* BoardArray: [[Piece; COLUMNS]; ROWS], row index 0 is the top row.  An
\* array is a tuple of ROWS rows, each a tuple of COLUMNS pieces; At reads it
\* with the 0-based indices of the code.
At(arr, row_idx, column) == arr[row_idx + 1][column + 1]

\* One row of Board::to_array: arr[ROWS - row - 1][column] is
\* get_checked(column, row) for row below the column's height and is left
\* Empty above it, where get_checked is Empty too
to_array_row(b, row_idx) ==
    LET row == ROWS - row_idx - 1
        cell(column) == get_checked(b, column, row)
    IN  <<cell(0), cell(1), cell(2), cell(3), cell(4), cell(5), cell(6)>>

\* Board::to_array.  (A height above ROWS would index out of bounds; the
\* model calls to_array only on boards whose heights are at most ROWS.)
to_array(b) ==
    <<to_array_row(b, 0), to_array_row(b, 1), to_array_row(b, 2),
      to_array_row(b, 3), to_array_row(b, 4), to_array_row(b, 5)>>

\* Board::from_array, inner loop: rows of one column from the bottom up,
\* stopping at the first Empty cell, then set_column_height
RECURSIVE from_array_rows(_, _, _, _, _)
from_array_rows(b, arr, column, row, height) ==
    IF row = ROWS THEN set_column_height(b, column, height)
    ELSE LET piece == At(arr, ROWS - row - 1, column)
         IN  CASE piece = Empty -> set_column_height(b, column, height)
               [] piece = Red ->
                    from_array_rows(b, arr, column, row + 1, height + 1)
               [] OTHER ->
                    from_array_rows(set_blue(b, column, row), arr, column,
                                    row + 1, height + 1)

\* Board::from_array, outer loop over the columns
RECURSIVE from_array_columns(_, _, _)
from_array_columns(b, arr, column) ==
    IF column = COLUMNS THEN b
    ELSE from_array_columns(from_array_rows(b, arr, column, 0, 0), arr,
                            column + 1)

from_array(arr) == from_array_columns(EMPTY, arr, 0)

\* ------------------------------------------------------- text encoding
\* A &str is modelled as the sequence of its characters.

\* str::split("/"): the pieces between separators, one more than separators
RECURSIVE split(_, _, _)
split(s, i, current) ==
    IF i > Len(s) THEN <<current>>
    ELSE IF s[i] = "/" THEN <<current>> \o split(s, i + 1, <<>>)
         ELSE split(s, i + 1, Append(current, s[i]))

\* The character match of Board::from with the players' letters exchanged
piece_of_char_swapped(c) ==
    CASE c = " " -> Empty
      [] c = "R" -> Blue
      [] c = "B" -> Red

\* The match on one character of Board::from
piece_of_char(c) ==
    CASE c = " " -> Empty
      [] c = "R" -> Red
      [] c = "B" -> Blue

ValidChars == {" ", "R", "B"}

\* The board_array Board::from fills from the split lines
parse_lines(lines) ==
    LET cell(row, col) == IF col + 1 <= Len(lines[row + 1])
                          THEN piece_of_char(lines[row + 1][col + 1])
                          ELSE Empty
        line(row) == <<cell(row, 0), cell(row, 1), cell(row, 2), cell(row, 3),
                       cell(row, 4), cell(row, 5), cell(row, 6)>>
    IN  <<line(0), line(1), line(2), line(3), line(4), line(5)>>

\* Number of cells of an array holding a piece
CountInArray(arr, piece) ==
    Cardinality({rc \in Rows \X Columns : At(arr, rc[1], rc[2]) = piece})

\* The assertions of Board::from; the balance check is a debug assertion.
from_asserts(s, dbg) ==
    /\ Len(s) >= 1
    /\ s[1] = "!"
    /\ LET lines == split(Tail(s), 1, <<>>)
       IN  /\ Len(lines) = ROWS
           /\ \A i \in 1 .. Len(lines) :
                 /\ Len(lines[i]) <= COLUMNS
                 /\ \A j \in 1 .. Len(lines[i]) : lines[i][j] \in ValidChars
           /\ dbg =>
                LET arr == parse_lines(lines)
                    red_played == CountInArray(arr, Red)
                    blue_played == CountInArray(arr, Blue)
                IN  red_played = blue_played \/ red_played = blue_played + 1

\* Board::from(&str): [panic, board]
from(s, dbg) ==
    IF from_asserts(s, dbg)
    THEN Returned(from_array(parse_lines(split(Tail(s), 1, <<>>))))
    ELSE Panicked(EMPTY)

\* Board::short_string, the loop over the pieces of one row: Empty cells are
\* counted and written as spaces only when a piece follows them
RECURSIVE short_string_row(_, _, _)
short_string_row(row, col, leading_spaces) ==
    IF col = COLUMNS THEN <<>>
    ELSE IF row[col + 1] = Empty
         THEN short_string_row(row, col + 1, leading_spaces + 1)
         ELSE [k \in 1 .. leading_spaces |-> " "]
              \o <<IF row[col + 1] = Red THEN "R" ELSE "B">>
              \o short_string_row(row, col + 1, 0)

RECURSIVE short_string_rows(_, _)
short_string_rows(repr, idx) ==
    IF idx = ROWS THEN <<>>
    ELSE short_string_row(repr[idx + 1], 0, 0)
         \o (IF idx < ROWS - 1 THEN <<"/">> ELSE <<>>)
         \o short_string_rows(repr, idx + 1)

\* Board::short_string
short_string(b) == <<"!">> \o short_string_rows(to_array(b), 0)

\* The count of next_player with a column mask one bit too short
blue_in_column_short_mask(b, column) ==
    LET height == column_height(b, column)
    IN  Cardinality({row \in 0 .. (height - 2) : get_raw(b, column, row) = Blue})

\* ------------------------------------------------------------ whose turn
\* Board::next_player, the per-column count: the 1-bits among the low
\* `height` piece bits are Blue, the rest of the height is Red
blue_in_column(b, column) ==
    LET height == column_height(b, column)
    IN  Cardinality({row \in 0 .. (height - 1) : get_raw(b, column, row) = Blue})

RECURSIVE count_blue(_, _)
count_blue(b, column) ==
    IF column = COLUMNS THEN 0
    ELSE blue_in_column(b, column) + count_blue(b, column + 1)

RECURSIVE count_red(_, _)
count_red(b, column) ==
    IF column = COLUMNS THEN 0
    ELSE (column_height(b, column) - blue_in_column(b, column))
         + count_red(b, column + 1)

\* The assert! of next_player
next_player_assert(b) ==
    LET red_pieces == count_red(b, 0)
        blue_pieces == count_blue(b, 0)
    IN  red_pieces = blue_pieces \/ red_pieces = blue_pieces + 1

\* Board::next_player (where its assertion holds)
next_player(b) == IF count_red(b, 0) = count_blue(b, 0) THEN Red ELSE Blue

\* ---------------------------------------------------------- win detection
\* The nested loops `for x in a..b { for y in c..d { .. } }`: the number of
\* iterations, and the values of x and y in iteration k (from 1), in order
LoopLen(a, b, c, d) == (b - a) * (d - c)
Outer(k, a, c, d) == a + ((k - 1) \div (d - c))
Inner(k, c, d) == c + ((k - 1) % (d - c))

\* The four cells read from repr, starting at (row, col), stepping (dr, dc)
four_pieces(repr, row, col, dr, dc) ==
    [i \in 1 .. 4 |-> At(repr, row + (i - 1) * dr, col + (i - 1) * dc)]

\* Board::check_four_pieces: Some(pieces[0]) or None
check_four_pieces(pieces) ==
    IF /\ pieces[1] # Empty
       /\ pieces[1] = pieces[2]
       /\ pieces[2] = pieces[3]
       /\ pieces[3] = pieces[4]
    THEN pieces[1] ELSE None

\* `if let Some(winner) = check_four_pieces(..) { return Some(winner) }` in
\* every iteration of a loop of n iterations: the winner of the first
\* iteration that has one, None when the loop ends.  windows[k] is the four
\* cells iteration k reads.
first_winner(windows) ==
    LET hits == {k \in DOMAIN windows : check_four_pieces(windows[k]) # None}
    IN  IF hits = {} THEN None
        ELSE check_four_pieces(
                 windows[CHOOSE k \in hits : \A j \in hits : k <= j])

\* In the four checks below repr is self.to_array(), which each of them
\* computes anew from the same board.

\* Board::check_rows with check_line_in_array: for each row of repr, col in
\* 0..COLUMNS-3, the pieces row[col .. col+3]
check_rows(repr) ==
    LET windows ==
            [k \in 1 .. LoopLen(0, ROWS, 0, COLUMNS - 3) |->
                four_pieces(repr, Outer(k, 0, 0, COLUMNS - 3),
                            Inner(k, 0, COLUMNS - 3), 0, 1)]
    IN  first_winner(windows)

\* Board::check_columns: col in 0..COLUMNS, row in 0..ROWS-3, the pieces
\* repr[row .. row+3][col]
check_columns(repr) ==
    LET windows ==
            [k \in 1 .. LoopLen(0, COLUMNS, 0, ROWS - 3) |->
                four_pieces(repr, Inner(k, 0, ROWS - 3),
                            Outer(k, 0, 0, ROWS - 3), 1, 0)]
    IN  first_winner(windows)

\* Board::check_diagonals, first loop: positive slope, row in 3..ROWS, col
\* in 0..COLUMNS-3, the pieces repr[row - i][col + i]
check_positive_slope(repr) ==
    LET windows ==
            [k \in 1 .. LoopLen(3, ROWS, 0, COLUMNS - 3) |->
                four_pieces(repr, Outer(k, 3, 0, COLUMNS - 3),
                            Inner(k, 0, COLUMNS - 3), -1, 1)]
    IN  first_winner(windows)

\* Board::check_diagonals, second loop: negative slope, row in 0..ROWS-3, col
\* in 0..COLUMNS-3, the pieces repr[row + i][col + i]
check_negative_slope(repr) ==
    LET windows ==
            [k \in 1 .. LoopLen(0, ROWS - 3, 0, COLUMNS - 3) |->
                four_pieces(repr, Outer(k, 0, 0, COLUMNS - 3),
                            Inner(k, 0, COLUMNS - 3), 1, 1)]
    IN  first_winner(windows)

\* check_diagonals without its second loop
check_diagonals_positive_only(repr) == check_positive_slope(repr)

\* `if let Some(winner) = found { return Some(winner); }` followed by the
\* rest of the function
or_else(found, rest) == IF found # None THEN found ELSE rest

\* Board::check_diagonals
check_diagonals(repr) ==
    or_else(check_positive_slope(repr), check_negative_slope(repr))

\* Board::has_winner on the array of the board: check_rows, or else
\* check_columns, or else check_diagonals
winner_in(repr) ==
    or_else(check_rows(repr),
            or_else(check_columns(repr), check_diagonals(repr)))

\* Board::has_winner
has_winner(b) == winner_in(to_array(b))

\* Board::is_terminal
is_terminal(b) == has_winner(b) # None \/ valid_moves(b) = <<>>

\* Outcome of a query that may panic: [panic, value]
Value(v) == [panic |-> FALSE, value |-> v]
QueryPanic == [panic |-> TRUE, value |-> None]

\* Board::winning_moves, the loop over valid_moves
RECURSIVE winning_moves_loop(_, _, _, _, _)
winning_moves_loop(b, piece, moves, k, dbg) ==
    IF k > Len(moves) THEN <<>>
    ELSE LET next_board == with_place(b, moves[k], piece, dbg).board
         IN  (IF has_winner(next_board) = piece THEN <<moves[k]>> ELSE <<>>)
             \o winning_moves_loop(b, piece, moves, k + 1, dbg)

\* Board::winning_moves(piece): panics when the board has a winner, and when
\* an Empty piece is placed (a debug assertion, else unreachable!())
winning_moves(b, piece, dbg) ==
    IF has_winner(b) # None THEN QueryPanic
    ELSE IF piece = Empty /\ valid_moves(b) # <<>> THEN QueryPanic
         ELSE Value(winning_moves_loop(b, piece, valid_moves(b), 1, dbg))

\* is_winning_opportunity without its empty_count and opponent_count tests
is_winning_opportunity_three_only(positions, piece) ==
    Cardinality({i \in 1 .. 4 : positions[i] = piece}) = 3

\* Board::is_winning_opportunity
is_winning_opportunity(positions, piece) ==
    LET piece_count == Cardinality({i \in 1 .. 4 : positions[i] = piece})
        empty_count == Cardinality({i \in 1 .. 4 : positions[i] = Empty})
        opponent_count ==
            Cardinality({i \in 1 .. 4 : positions[i] = opponent(piece)})
    IN  piece_count = 3 /\ empty_count = 1 /\ opponent_count = 0

\* One of the four loops of count_winning_opportunities: the number of
\* iterations whose positions are a winning opportunity
count_in_loop(positions, piece) ==
    Cardinality({k \in DOMAIN positions :
                    is_winning_opportunity(positions[k], piece)})

\* Board::count_winning_opportunities(piece): horizontal, vertical (row in
\* 0..ROWS-3, col in 0..COLUMNS), positive slope, negative slope.  Panics
\* when the board has a winner, and in Piece::opponent when the piece is
\* Empty.
count_winning_opportunities(b, piece) ==
    IF has_winner(b) # None \/ piece = Empty THEN QueryPanic
    ELSE LET repr == to_array(b)
             horizontal ==
                 [k \in 1 .. LoopLen(0, ROWS, 0, COLUMNS - 3) |->
                     four_pieces(repr, Outer(k, 0, 0, COLUMNS - 3),
                                 Inner(k, 0, COLUMNS - 3), 0, 1)]
             vertical ==
                 [k \in 1 .. LoopLen(0, ROWS - 3, 0, COLUMNS) |->
                     four_pieces(repr, Outer(k, 0, 0, COLUMNS),
                                 Inner(k, 0, COLUMNS), 1, 0)]
             positive ==
                 [k \in 1 .. LoopLen(3, ROWS, 0, COLUMNS - 3) |->
                     four_pieces(repr, Outer(k, 3, 0, COLUMNS - 3),
                                 Inner(k, 0, COLUMNS - 3), -1, 1)]
             negative ==
                 [k \in 1 .. LoopLen(0, ROWS - 3, 0, COLUMNS - 3) |->
                     four_pieces(repr, Outer(k, 0, 0, COLUMNS - 3),
                                 Inner(k, 0, COLUMNS - 3), 1, 1)]
         IN  Value(count_in_loop(horizontal, piece)
                   + count_in_loop(vertical, piece)
                   + count_in_loop(positive, piece)
                   + count_in_loop(negative, piece))

\* ------------------------------------------------------------- the state
VARIABLES
    debug_assertions,   \* cfg(debug_assertions) of the build that runs
    board,              \* the Board the caller holds
    pc,                 \* position in game(), or "api" outside it
    call,               \* the last Board operation called and its outcome
    placed,             \* number of pieces placed since the start
    stack,              \* the stages of the StrategyStack that is asked
    tables,             \* per stage, the table of its SearchForWinCache
    cache,              \* the BoardCache of the StrategyCache around stack
    asked               \* number of calls made on the one SearchForWinCache

vars ==
    <<debug_assertions, board, pc, call, placed, stack, tables, cache, asked>>

\* The strategies of a caller that holds no StrategyStack
NoStack == <<>>
NoTables == <<>>

\* StrategyCache::new: HashMap::new(), a function from boards to options
EmptyCache == [x \in {} |-> <<>>]

\* No strategy is built, asked or changed
NoStrategy ==
    stack = NoStack /\ tables = NoTables /\ cache = EmptyCache /\ asked = 0

\* Largest number of plies of game() the model follows
MaxPlies == 7

NoCall == [op |-> "new", args |-> <<>>, prior |-> EMPTY, panic |-> FALSE,
           violated |-> FALSE, result |-> EMPTY]

\* ------------------------------------------------------------ the inputs
\* The board strings the repository itself parses with Board::from
\* benches/board_bench.rs:5  "!////RR B/BB R"
BENCH_1 ==
    <<"!", "/", "/", "/", "/", "R", "R", " ", "B", "/", "B", "B", " ", "R">>

\* benches/board_bench.rs:6  "!///  RB/ RRR/ BBBR"
BENCH_2 ==
    <<"!", "/", "/", "/", " ", " ", "R", "B", "/", " ", "R", "R", "R", "/",
    " ", "B", "B", "B", "R">>

\* benches/board_bench.rs:7  "!///   B/  RRR/B BRB"
BENCH_3 ==
    <<"!", "/", "/", "/", " ", " ", " ", "B", "/", " ", " ", "R", "R", "R",
    "/", "B", " ", "B", "R", "B">>

\* benches/board_bench.rs:8  "!/B  BB/R  RR/B BBR/B RRR R/B BRB R"
BENCH_4 ==
    <<"!", "/", "B", " ", " ", "B", "B", "/", "R", " ", " ", "R", "R", "/",
    "B", " ", "B", "B", "R", "/", "B", " ", "R", "R", "R", " ", "R", "/",
    "B", " ", "B", "R", "B", " ", "R">>

\* benches/board_bench.rs:9  "!B BRB R/B RBB R/R BRR B/B BBR R/B RRR R/B BRB R"
BENCH_5 ==
    <<"!", "B", " ", "B", "R", "B", " ", "R", "/", "B", " ", "R", "B", "B",
    " ", "R", "/", "R", " ", "B", "R", "R", " ", "B", "/", "B", " ", "B",
    "B", "R", " ", "R", "/", "B", " ", "R", "R", "R", " ", "R", "/", "B",
    " ", "B", "R", "B", " ", "R">>

\* benches/board_bench.rs:10  "!B BRB R/B RBB R/R BRR B/BRBBR R/BBRRR R/BRBRB R"
BENCH_6 ==
    <<"!", "B", " ", "B", "R", "B", " ", "R", "/", "B", " ", "R", "B", "B",
    " ", "R", "/", "R", " ", "B", "R", "R", " ", "B", "/", "B", "R", "B",
    "B", "R", " ", "R", "/", "B", "B", "R", "R", "R", " ", "R", "/", "B",
    "R", "B", "R", "B", " ", "R">>

\* benches/board_bench.rs:11  "!/////"
BENCH_7 ==
    <<"!", "/", "/", "/", "/", "/">>

\* src/strategy.rs:362  "!   RB/   BR/ BRBB/ RBBB/ RRRB/BRRBR R"
SEARCH_TEST ==
    <<"!", " ", " ", " ", "R", "B", "/", " ", " ", " ", "B", "R", "/", " ",
    "B", "R", "B", "B", "/", " ", "R", "B", "B", "B", "/", " ", "R", "R",
    "R", "B", "/", "B", "R", "R", "B", "R", " ", "R">>

\* Two further boards, for the case of a column that holds five pieces
\* column 0 holds B,B,R,R,R from the bottom: five pieces, one free cell  "!/R/R/R/B/BB"
TALL_COLUMN ==
    <<"!", "/", "R", "/", "R", "/", "R", "/", "B", "/", "B", "B">>

\* every column holds five pieces, no line of four, seven free cells  "!/RRBBRRB/BBRRBBR/RRBBRRB/BBRRBBR/RRBBRRB"
FIVE_ROWS ==
    <<"!", "/", "R", "R", "B", "B", "R", "R", "B", "/", "B", "B", "R", "R",
    "B", "B", "R", "/", "R", "R", "B", "B", "R", "R", "B", "/", "B", "B",
    "R", "R", "B", "B", "R", "/", "R", "R", "B", "B", "R", "R", "B">>

BoardStrings ==
    {BENCH_1, BENCH_2, BENCH_3, BENCH_4, BENCH_5, BENCH_6, BENCH_7,
     SEARCH_TEST, TALL_COLUMN, FIVE_ROWS}

\* The with_place sequences of the tests of src/board.rs, as <<column, piece>>
TEST_TEST_EQ_BOARD1 ==
    << <<0, Red>>, <<1, Blue>>, <<2, Red>>>>

TEST_TEST_EQ_BOARD2 ==
    << <<0, Red>>, <<2, Red>>, <<1, Blue>>>>

TEST_TO_FROM_ARRAY ==
    << <<0, Red>>, <<1, Blue>>, <<2, Red>>, <<0, Blue>>, <<1, Red>>, <<2,
    Blue>>, <<0, Blue>>, <<6, Red>>, <<0, Blue>>, <<6, Red>>, <<0, Blue>>,
    <<6, Red>>>>

TEST_HORIZONTAL ==
    << <<0, Red>>, <<1, Red>>, <<2, Red>>>>

TEST_HORIZONTAL_GAP_IN_MIDDLE ==
    << <<0, Red>>, <<1, Red>>, <<3, Red>>>>

TEST_HORIZONTAL_GAP_AT_START ==
    << <<1, Red>>, <<2, Red>>, <<3, Red>>>>

TEST_VERTICAL ==
    << <<0, Red>>, <<0, Red>>, <<0, Red>>>>

TEST_DIAGONAL_POSITIVE_SLOPE ==
    << <<0, Red>>, <<1, Blue>>, <<1, Red>>, <<2, Blue>>, <<2, Blue>>, <<2,
    Red>>>>

TEST_DIAGONAL_NEGATIVE_SLOPE ==
    << <<0, Blue>>, <<0, Blue>>, <<0, Blue>>, <<0, Red>>, <<1, Blue>>, <<1,
    Blue>>, <<1, Red>>, <<2, Blue>>, <<2, Red>>>>

TEST_BLOCKED_BY_OPPONENT ==
    << <<0, Red>>, <<1, Red>>, <<2, Red>>, <<3, Blue>>>>

TEST_MULTIPLE_OPPORTUNITIES ==
    << <<0, Red>>, <<1, Red>>, <<2, Red>>, <<6, Red>>, <<6, Red>>, <<6,
    Red>>>>

TEST_R_GAP_RR_PATTERN ==
    << <<0, Red>>, <<2, Red>>, <<3, Red>>>>

TestPlacements ==
    {TEST_TEST_EQ_BOARD1, TEST_TEST_EQ_BOARD2, TEST_TO_FROM_ARRAY,
     TEST_HORIZONTAL, TEST_HORIZONTAL_GAP_IN_MIDDLE,
     TEST_HORIZONTAL_GAP_AT_START, TEST_VERTICAL,
     TEST_DIAGONAL_POSITIVE_SLOPE, TEST_DIAGONAL_NEGATIVE_SLOPE,
     TEST_BLOCKED_BY_OPPONENT, TEST_MULTIPLE_OPPORTUNITIES,
     TEST_R_GAP_RR_PATTERN}

\* board.with_place(..) for every element of a sequence, from Board::new()
RECURSIVE replay(_, _, _, _)
replay(b, placements, k, dbg) ==
    IF k > Len(placements) THEN b
    ELSE replay(with_place(b, placements[k][1], placements[k][2], dbg).board,
                placements, k + 1, dbg)

\* The boards a caller starts from: Board::new(), a parsed string, or the
\* board a test builds
StartBoards(dbg) ==
    {EMPTY}
    \cup {from(s, dbg).board : s \in {t \in BoardStrings : ~from(t, dbg).panic}}
    \cup {replay(EMPTY, t, 1, dbg) : t \in TestPlacements}

\* ------------------------------------------------------- calls on a Board
\* Largest number of with_place calls the caller makes on its board
MaxPlaced == 1

\* The columns a caller passes: those of the board and one past them
ColumnArgs == 0 .. COLUMNS

Init ==
    /\ debug_assertions \in BOOLEAN
    /\ board \in StartBoards(debug_assertions)
    /\ pc = "api"
    /\ call = NoCall
    /\ placed = 0
    /\ NoStrategy

\* The program goes on after a call unless the call panicked; the model
\* follows it no further once a debug assertion was false and unchecked.  A
\* query leaves the board as it is, so the calls that can follow a query are
\* the calls that can follow the board's last placement: the model makes
\* them from there.
Running ==
    /\ call.op \in {"new", "with_place"}
    /\ ~call.panic
    /\ ~call.violated

Called(op, args, outcome, result) ==
    [op |-> op, args |-> args, prior |-> board, panic |-> outcome.panic,
     violated |-> outcome.violated, result |-> result]

NoViolation == [panic |-> FALSE, violated |-> FALSE]

\* board.with_place(column, piece)
WithPlace ==
    /\ Running
    /\ placed < MaxPlaced
    /\ \E column \in ColumnArgs, piece \in Piece :
          LET r == with_place(board, column, piece, debug_assertions)
          IN  /\ board' = r.board
              /\ call' = Called("with_place", <<column, piece>>, r, r.board)
    /\ placed' = placed + 1
    /\ UNCHANGED <<debug_assertions, pc, stack, tables, cache, asked>>

\* board.place(column, piece)
Place ==
    /\ Running
    /\ \E column \in ColumnArgs, piece \in Piece :
          LET r == place(board, column, piece, debug_assertions)
          IN  call' = Called("place", <<column, piece>>, r, r.board)
    /\ UNCHANGED <<debug_assertions, board, pc, placed, stack, tables, cache, asked>>

\* board.valid_moves()
ValidMoves ==
    /\ Running
    /\ call' = Called("valid_moves", <<>>, NoViolation, valid_moves(board))
    /\ UNCHANGED <<debug_assertions, board, pc, placed, stack, tables, cache, asked>>

\* board.has_winner()
HasWinner ==
    /\ Running
    /\ call' = Called("has_winner", <<>>, NoViolation, has_winner(board))
    /\ UNCHANGED <<debug_assertions, board, pc, placed, stack, tables, cache, asked>>

\* board.is_terminal()
IsTerminal ==
    /\ Running
    /\ call' = Called("is_terminal", <<>>, NoViolation, is_terminal(board))
    /\ UNCHANGED <<debug_assertions, board, pc, placed, stack, tables, cache, asked>>

\* board.next_player(): panics when its assertion fails
NextPlayer ==
    /\ Running
    /\ call' = IF next_player_assert(board)
               THEN Called("next_player", <<>>, NoViolation, next_player(board))
               ELSE Called("next_player", <<>>, QueryPanic @@ NoViolation, None)
    /\ UNCHANGED <<debug_assertions, board, pc, placed, stack, tables, cache, asked>>

\* board.winning_moves(piece)
WinningMoves ==
    /\ Running
    /\ \E piece \in Piece :
          LET r == winning_moves(board, piece, debug_assertions)
          IN  call' = Called("winning_moves", <<piece>>, r @@ NoViolation, r.value)
    /\ UNCHANGED <<debug_assertions, board, pc, placed, stack, tables, cache, asked>>

\* board.count_winning_opportunities(piece)
CountWinningOpportunities ==
    /\ Running
    /\ \E piece \in Piece :
          LET r == count_winning_opportunities(board, piece)
          IN  call' = Called("count_winning_opportunities", <<piece>>,
                             r @@ NoViolation, r.value)
    /\ UNCHANGED <<debug_assertions, board, pc, placed, stack, tables, cache, asked>>

\* Board::from(&board.short_string())
ShortStringFrom ==
    /\ Running
    /\ LET r == from(short_string(board), debug_assertions)
       IN  call' = Called("short_string_from", <<>>, r, r.board)
    /\ UNCHANGED <<debug_assertions, board, pc, placed, stack, tables, cache, asked>>

\* Board::from_array(board.to_array())
ToFromArray ==
    /\ Running
    /\ call' = Called("to_from_array", <<>>, NoViolation,
                      from_array(to_array(board)))
    /\ UNCHANGED <<debug_assertions, board, pc, placed, stack, tables, cache, asked>>

Next ==
    \/ WithPlace
    \/ Place
    \/ ValidMoves
    \/ HasWinner
    \/ IsTerminal
    \/ NextPlayer
    \/ WinningMoves
    \/ CountWinningOpportunities
    \/ ShortStringFrom
    \/ ToFromArray

Spec == Init /\ [][Next]_vars

\* ------------------------------------------------------------ game loop
\* fn game(red, yellow), src/main.rs: let mut board = Board::new()
GameInit ==
    /\ debug_assertions \in BOOLEAN
    /\ board = EMPTY
    /\ pc = "red_check"
    /\ call = NoCall
    /\ placed = 0
    /\ NoStrategy

\* The exit test that never leaves the loop
game_never_over(b) == FALSE

\* The exit test without its has_winner half
game_over_moves_only(b) == valid_moves(b) = <<>>

\* The loop's exit test, before either player's move
game_over(b) == has_winner(b) # None \/ valid_moves(b) = <<>>

\* A play that returns any column of the board, full or not
play_any_column(b) == 0 .. COLUMNS - 1

\* Connect4AI::play of a StrategyStack with no stage: any of valid_moves
play(b) == {valid_moves(b)[i] : i \in 1 .. Len(valid_moves(b))}

\* if board.has_winner().is_some() || board.valid_moves().is_empty() { break }
\* before Red's move and before the second player's move
ExitTest ==
    /\ pc \in {"red_check", "yellow_check"}
    /\ pc' = IF game_over(board) THEN "done"
             ELSE IF pc = "red_check" THEN "red_play" ELSE "yellow_play"
    /\ UNCHANGED <<debug_assertions, board, call, placed, stack, tables, cache, asked>>

\* let col = red.play(&board)?; board.with_place(col, Piece::Red);
RedMoves ==
    /\ pc = "red_play"
    /\ placed < MaxPlies
    /\ \E col \in play(board) :
          board' = with_place(board, col, Red, debug_assertions).board
    /\ pc' = "yellow_check"
    /\ placed' = placed + 1
    /\ UNCHANGED <<debug_assertions, call, stack, tables, cache, asked>>

\* let col = yellow.play(&board)?; board.with_place(col, <second player>);
YellowMoves ==
    /\ pc = "yellow_play"
    /\ placed < MaxPlies
    /\ \E col \in play(board) :
          board' = with_place(board, col, Blue, debug_assertions).board
    /\ pc' = "red_check"
    /\ placed' = placed + 1
    /\ UNCHANGED <<debug_assertions, call, stack, tables, cache, asked>>

GameNext == ExitTest \/ RedMoves \/ YellowMoves

GameSpec == GameInit /\ [][GameNext]_vars

\* ------------------------------------------------- game loop, mid-game
\* Games in progress: the columns game() has played so far, Red first, the
\* players alternating.  Columns 3..6 are played up to ROWS - 1 pieces each
\* without a line of four, so that the rest of the game is played in columns
\* 0..2.
OPENING_TWENTY ==
    <<4, 3, 5, 6, 3, 4, 6, 5, 4, 3, 5, 6, 3, 4, 6, 5, 4, 3, 5, 6>>

\* The same, then Red in column 0 and the second player in column 1
OPENING_TWENTY_TWO == OPENING_TWENTY \o <<0, 1>>

Openings == {OPENING_TWENTY, OPENING_TWENTY_TWO}

\* The player of the k-th move of a game
mover(k) == IF k % 2 = 1 THEN Red ELSE Blue

\* game() playing the moves of an opening from move k on: it stops at the
\* exit test, or where the column is not one that play can return
RECURSIVE play_opening(_, _, _, _)
play_opening(b, moves, k, dbg) ==
    IF k > Len(moves) \/ game_over(b) \/ moves[k] \notin play(b) THEN b
    ELSE play_opening(with_place(b, moves[k], mover(k), dbg).board, moves,
                      k + 1, dbg)

\* The board of game() after an opening
opening_board(moves, dbg) == play_opening(EMPTY, moves, 1, dbg)

\* game() after an opening that it played to its last move, at the exit
\* test before the next move
MidGameInit ==
    /\ debug_assertions \in BOOLEAN
    /\ \E moves \in Openings :
          /\ board = opening_board(moves, debug_assertions)
          /\ num_pieces_played(board) = Len(moves)
          /\ pc = IF mover(Len(moves) + 1) = Red THEN "red_check"
                  ELSE "yellow_check"
    /\ call = NoCall
    /\ placed = 0
    /\ NoStrategy

MidGameSpec == MidGameInit /\ [][GameNext]_vars

\* ================================================================ claims
\* What the claims say of a board is read off its grid: the height of a
\* column and the piece of a cell, cell (column, row) counted from the
\* bottom row 0.
Cells == Columns \X Rows
PieceAt(b, cell) == get_checked(b, cell[1], cell[2])
PiecesOf(b, piece) == Cardinality({cell \in Cells : PieceAt(b, cell) = piece})
Players == {Red, Blue}

\* The ascending sequence of a set of columns
RECURSIVE Ascending(_, _)
Ascending(S, column) ==
    IF column = COLUMNS THEN <<>>
    ELSE (IF column \in S THEN <<column>> ELSE <<>>) \o Ascending(S, column + 1)

\* C1: on every board the game loop reaches, Red has as many pieces as the
\* second player or one more; next_player's assertion holds there, and
\* next_player is Red when the counts are equal and the second player when
\* Red leads by one, which is the player the loop lets move next.
C1_GameBalance ==
    \A red \in {PiecesOf(board, Red)}, blue \in {PiecesOf(board, Blue)},
       next \in {next_player(board)} :
        /\ red - blue \in {0, 1}
        /\ next_player_assert(board)
        /\ next = IF red = blue THEN Red ELSE Blue
        /\ pc \in {"red_check", "red_play"} => next = Red
        /\ pc \in {"yellow_check", "yellow_play"} => next = Blue

\* C1 witness: the second player is to move on a board where Red leads
C1_Witness ==
    /\ pc = "yellow_play"
    /\ placed >= 5
    /\ PiecesOf(board, Red) = PiecesOf(board, Blue) + 1
    /\ next_player(board) = Blue

\* A call of place or with_place, and its arguments
IsPlacement == call.op \in {"place", "with_place"}
ArgColumn == call.args[1]
ArgPiece == call.args[2]

\* The board has the grid of `before` with `piece` added on top of `column`
PlacedOn(after, before, column, piece) ==
    LET height == column_height(before, column)
    IN  /\ PieceAt(after, <<column, height>>) = piece
        /\ column_height(after, column) = height + 1
        /\ \A cell \in Cells \ {<<column, height>>} :
              PieceAt(after, cell) = PieceAt(before, cell)
        /\ \A other \in Columns \ {column} :
              column_height(after, other) = column_height(before, other)

\* C2: for a column on the board that is not full (fewer than ROWS pieces)
\* and a piece that is not Empty, place returns the board with the piece on
\* top of the column and nothing else changed, leaving the receiver as it
\* was, and with_place makes the receiver that board.
C2_PlaceContract ==
    (/\ IsPlacement
     /\ ArgColumn < COLUMNS
     /\ ArgPiece # Empty
     /\ column_height(call.prior, ArgColumn) < ROWS)
    => /\ ~call.panic
       /\ PlacedOn(call.result, call.prior, ArgColumn, ArgPiece)
       /\ call.op = "place" => board = call.prior
       /\ call.op = "with_place" => board = call.result

\* C3: valid_moves returns, ascending and without duplicates, exactly the
\* columns that hold fewer than ROWS pieces.
C3_ValidMoves ==
    call.op = "valid_moves"
    => call.result =
         Ascending({column \in Columns : column_height(call.prior, column) < ROWS},
                   0)

\* The layout the Board comment describes: a height of at most ROWS in every
\* column, every piece bit at or above the height 0, the top bit unused
WellFormed(b) ==
    /\ \A column \in Columns :
          /\ column_height(b, column) <= ROWS
          /\ \A row \in Rows :
                row >= column_height(b, column) => get_raw(b, column, row) = Red
    /\ (WORD_BITS - 1) \notin b

\* C4: place and with_place fail exactly when the column is off the board,
\* the column already holds ROWS pieces, or the piece is Empty (so they
\* succeed on a column that holds ROWS - 1 pieces); a failed call leaves no
\* ill-formed board behind.
C4_PlaceFails ==
    IsPlacement
    => /\ call.panic <=>
            \/ ArgColumn >= COLUMNS
            \/ ArgPiece = Empty
            \/ column_height(call.prior, ArgColumn) = ROWS
       /\ call.panic => WellFormed(board)

\* Red has as many pieces as Blue, or one more
Balanced(b) == PiecesOf(b, Red) - PiecesOf(b, Blue) \in {0, 1}

\* C5: decoding the encoding of a board gives the board back, for the text
\* form on every board with the piece balance of legal play, and for the
\* array form on every board; boards with full columns included.
C5_RoundTrip ==
    /\ (call.op = "short_string_from" /\ Balanced(call.prior))
       => ~call.panic /\ call.result = call.prior
    /\ call.op = "to_from_array" => call.result = call.prior

\* C5 witness: a board with a full column and a piece above an empty cell of
\* its row went through the text form and came back
C5_Witness ==
    /\ call.op = "short_string_from"
    /\ Balanced(call.prior)
    /\ \E column \in Columns : column_height(call.prior, column) = ROWS
    /\ \E column \in Columns : column_height(call.prior, column) = 0
    /\ call.result = call.prior

\* The windows: every four cells in a line, horizontal, vertical or along
\* either diagonal, that lie on the board
Directions == {<<1, 0>>, <<0, 1>>, <<1, 1>>, <<1, -1>>}
Window(start, d) ==
    {<<start[1] + i * d[1], start[2] + i * d[2]>> : i \in 0 .. 3}
Windows ==
    {Window(start, d) : start \in Cells, d \in Directions}
    \cap SUBSET Cells

\* Some window is filled with the piece
HasLine(b, piece) ==
    \E w \in Windows : \A cell \in w : PieceAt(b, cell) = piece

\* C6: has_winner is None exactly when no window is filled with four equal
\* pieces of a player, and a Some(p) it returns has a window filled with p;
\* it is None on the empty board.
C6_HasWinner ==
    call.op = "has_winner"
    => /\ call.result = None <=> \A p \in Players : ~HasLine(call.prior, p)
       /\ call.result # None =>
            call.result \in Players /\ HasLine(call.prior, call.result)
       /\ call.prior = EMPTY => call.result = None

\* The window is filled with the piece and runs neither along a row nor
\* along a column
DiagonalLine(b, piece) ==
    \E w \in Windows :
        /\ \A cell \in w : PieceAt(b, cell) = piece
        /\ Cardinality({cell[1] : cell \in w}) = 4
        /\ Cardinality({cell[2] : cell \in w}) = 4

\* C6 witness: has_winner named the owner of a diagonal line
C6_Witness ==
    /\ call.op = "has_winner"
    /\ call.result \in Players
    /\ DiagonalLine(call.prior, call.result)

\* The windows with three cells of the piece and one Empty cell
Opportunities(b, piece) ==
    {w \in Windows :
        /\ Cardinality({cell \in w : PieceAt(b, cell) = piece}) = 3
        /\ Cardinality({cell \in w : PieceAt(b, cell) = Empty}) = 1}

\* The board a test of count_winning_opportunities builds
TestBoard(placements) == replay(EMPTY, placements, 1, FALSE)

\* C7: on a board without a winner count_winning_opportunities(p) is the
\* number of windows with three cells of p, one Empty cell and no cell of
\* the opponent: 0 on the empty board, 1 for Red's bottom-row run at columns
\* 0,1,2, 2 for the run at columns 1,2,3, 0 for the run at 0,1,2 blocked at
\* column 3.  On a board with a winner the call fails.
C7_CountWinningOpportunities ==
    (call.op = "count_winning_opportunities" /\ call.args[1] \in Players)
    => LET p == call.args[1]
           won == \E q \in Players : HasLine(call.prior, q)
       IN  /\ call.panic <=> won
           /\ ~won =>
                /\ call.result = Cardinality(Opportunities(call.prior, p))
                /\ call.prior = EMPTY => call.result = 0
                /\ (call.prior = TestBoard(TEST_HORIZONTAL) /\ p = Red)
                   => call.result = 1
                /\ (call.prior = TestBoard(TEST_HORIZONTAL_GAP_AT_START)
                    /\ p = Red) => call.result = 2
                /\ call.prior = TestBoard(TEST_BLOCKED_BY_OPPONENT)
                   => call.result = 0

\* C7 witness: a count of two or more that includes a diagonal window
C7_Witness ==
    /\ call.op = "count_winning_opportunities"
    /\ ~call.panic
    /\ call.args[1] \in Players
    /\ call.result >= 2
    /\ \E w \in Opportunities(call.prior, call.args[1]) :
          /\ Cardinality({cell[1] : cell \in w}) = 4
          /\ Cardinality({cell[2] : cell \in w}) = 4

\* The board with the piece added on top of the column
Dropped(b, column, piece) == with_place_body(b, column, piece, FALSE).board

\* C8: on a board without a winner winning_moves(p) returns, ascending,
\* exactly the columns with fewer than ROWS pieces where placing p gives a
\* board whose has_winner is Some(p); on a board with a winner it fails.
C8_WinningMoves ==
    (call.op = "winning_moves" /\ call.args[1] \in Players)
    => LET p == call.args[1]
           won == has_winner(call.prior) # None
       IN  /\ call.panic <=> won
           /\ ~won =>
                call.result =
                  Ascending({column \in Columns :
                      /\ column_height(call.prior, column) < ROWS
                      /\ has_winner(Dropped(call.prior, column, p)) = p}, 0)

\* C9: is_terminal is true exactly when has_winner is Some or all
\* ROWS * COLUMNS cells are occupied.
C9_IsTerminal ==
    call.op = "is_terminal"
    => (call.result <=>
          \/ has_winner(call.prior) # None
          \/ PiecesOf(call.prior, Empty) = 0)

\* The last call was no placement, or a placement the Board comment allows:
\* a piece of a player on a column of the board with fewer than ROWS pieces
LegalCall ==
    IsPlacement
    => /\ ArgColumn < COLUMNS
       /\ ArgPiece # Empty
       /\ column_height(call.prior, ArgColumn) < ROWS

\* with_place took such a placement and returned
Placed == call.op = "with_place" /\ ~call.panic /\ LegalCall

C11_OneWinner == ~(HasLine(board, Red) /\ HasLine(board, Blue))

\* C11 witness: the game ended on a line of the second player while Red
\* holds three in a row of its own
C11_Witness ==
    /\ pc = "done"
    /\ HasLine(board, Blue)
    /\ Opportunities(board, Red) # {}

\* ============================================================ strategies
\* src/strategy.rs.  A Vec<usize> of columns is a sequence; an Option<usize>
\* is a sequence of at most one column.
NoMove == <<>>
SomeMove(col) == <<col>>

\* options.contains(&col)
contains(options, col) == \E i \in 1 .. Len(options) : options[i] = col

\* `let mut test_board = *board; test_board.with_place(col, piece);` for a
\* column of the candidate list
test_board_of(b, col, piece, dbg) == with_place(b, col, piece, dbg).board

\* TriesToWin::choose, the loop from candidate i on
RECURSIVE tries_to_win_loop(_, _, _, _, _)
tries_to_win_loop(b, piece, options, i, dbg) ==
    IF i > Len(options) THEN NoMove
    ELSE LET col == options[i]
         IN  IF has_winner(test_board_of(b, col, piece, dbg)) = piece
             THEN SomeMove(col)
             ELSE IF has_winner(test_board_of(b, col, opponent(piece), dbg))
                     = opponent(piece)
             THEN SomeMove(col)
             ELSE tries_to_win_loop(b, piece, options, i + 1, dbg)

\* TriesToWin::choose looking at every valid move, not at the options
TriesToWin_choose_any_move(b, piece, options, dbg) ==
    Value(tries_to_win_loop(b, piece, valid_moves(b), 1, dbg))

\* TriesToWin::choose preferring a winning candidate to an earlier blocking
\* one
TriesToWin_choose_win_first(b, piece, options, dbg) ==
    LET wins(col) == has_winner(test_board_of(b, col, piece, dbg)) = piece
        winning == SelectSeq(options, wins)
    IN  IF winning # <<>> THEN Value(SomeMove(winning[1]))
        ELSE Value(tries_to_win_loop(b, piece, options, 1, dbg))

\* TriesToWin::choose
TriesToWin_choose(b, piece, options, dbg) ==
    Value(tries_to_win_loop(b, piece, options, 1, dbg))

RECURSIVE setup_loop(_, _, _, _, _)

\* Setup::choose, candidate i where it does not win at once: moves is what
\* test_board.winning_moves(self.piece) returned
setup_threat(b, piece, options, i, dbg, moves) ==
    IF moves.panic THEN QueryPanic
    ELSE IF moves.value # <<>> THEN Value(SomeMove(options[i]))
    ELSE setup_loop(b, piece, options, i + 1, dbg)

\* Setup::choose, the loop from candidate i on
setup_loop(b, piece, options, i, dbg) ==
    IF i > Len(options) THEN Value(NoMove)
    ELSE LET col == options[i]
             test_board == test_board_of(b, col, piece, dbg)
         IN  IF has_winner(test_board) = piece THEN Value(SomeMove(col))
             ELSE setup_threat(b, piece, options, i, dbg,
                               winning_moves(test_board, piece, dbg))

\* Setup::choose
Setup_choose(b, piece, options, dbg) == setup_loop(b, piece, options, 1, dbg)

RECURSIVE three_in_a_row_loop(_, _, _, _, _, _, _)

\* ThreeInARow::prune_from, candidate i where it does not win at once: score
\* is what test_board.count_winning_opportunities(self.piece) returned
three_in_a_row_score(b, piece, options, i, best, best_moves, dbg, score) ==
    IF score.panic THEN QueryPanic
    ELSE IF score.value > best
    THEN three_in_a_row_loop(b, piece, options, i + 1, score.value,
                             <<options[i]>>, dbg)
    ELSE IF score.value = best
    THEN three_in_a_row_loop(b, piece, options, i + 1, best,
                             Append(best_moves, options[i]), dbg)
    ELSE three_in_a_row_loop(b, piece, options, i + 1, best, best_moves, dbg)

\* ThreeInARow::prune_from, the loop from candidate i on, and the
\* assert!(!best_moves.is_empty()) after it
three_in_a_row_loop(b, piece, options, i, best, best_moves, dbg) ==
    IF i > Len(options)
    THEN IF best_moves = <<>> THEN QueryPanic ELSE Value(best_moves)
    ELSE LET col == options[i]
             test_board == test_board_of(b, col, piece, dbg)
         IN  IF has_winner(test_board) = piece THEN Value(<<col>>)
             ELSE three_in_a_row_score(
                      b, piece, options, i, best, best_moves, dbg,
                      count_winning_opportunities(test_board, piece))

\* ThreeInARow::prune_from
ThreeInARow_prune_from(b, piece, options, dbg) ==
    three_in_a_row_loop(b, piece, options, 1, 0, <<>>, dbg)

RECURSIVE avoid_traps_loop(_, _, _, _, _, _)

\* AvoidTraps::prune_from, candidate i where it does not win at once:
\* replies is what test_board.winning_moves(self.piece.opponent()) returned
avoid_traps_replies(b, piece, options, i, allowed, dbg, replies) ==
    IF replies.panic THEN QueryPanic
    ELSE IF replies.value # <<>>
    THEN avoid_traps_loop(b, piece, options, i + 1, allowed, dbg)
    ELSE avoid_traps_loop(b, piece, options, i + 1,
                          Append(allowed, options[i]), dbg)

\* AvoidTraps::prune_from, the loop from candidate i on
avoid_traps_loop(b, piece, options, i, allowed, dbg) ==
    IF i > Len(options) THEN Value(allowed)
    ELSE LET col == options[i]
             test_board == test_board_of(b, col, piece, dbg)
         IN  IF has_winner(test_board) = piece
             THEN avoid_traps_loop(b, piece, options, i + 1,
                                   Append(allowed, col), dbg)
             ELSE avoid_traps_replies(
                      b, piece, options, i, allowed, dbg,
                      winning_moves(test_board, opponent(piece), dbg))

\* AvoidTraps::prune_from removing nothing
AvoidTraps_keeps_all(b, piece, options, dbg) == Value(options)

\* AvoidTraps::prune_from
AvoidTraps_prune_from(b, piece, options, dbg) ==
    avoid_traps_loop(b, piece, options, 1, <<>>, dbg)

\* AvoidInescapableTraps::prune_from, the inner loop over
\* test_board.valid_moves(): some iteration reaches `continue
\* 'candidate_loop`.  Each iteration builds next_board and then tests
\* test_board, so every iteration tests the same.  winning_moves is called
\* where test_board has no winner of the opponent; a winner of the own piece
\* was handled before the loop.
inescapable_trap(test_board, piece, dbg) ==
    LET lost ==
            \/ has_winner(test_board) = opponent(piece)
            \/ Len(winning_moves(test_board, opponent(piece), dbg).value) > 1
    IN  \E k \in 1 .. Len(valid_moves(test_board)) : lost

\* AvoidInescapableTraps::prune_from, the loop from candidate i on
RECURSIVE avoid_inescapable_traps_loop(_, _, _, _, _, _)
avoid_inescapable_traps_loop(b, piece, options, i, allowed, dbg) ==
    IF i > Len(options) THEN Value(allowed)
    ELSE LET col == options[i]
             test_board == test_board_of(b, col, piece, dbg)
         IN  IF has_winner(test_board) = piece
             THEN avoid_inescapable_traps_loop(b, piece, options, i + 1,
                                               Append(allowed, col), dbg)
             ELSE IF inescapable_trap(test_board, piece, dbg)
             THEN avoid_inescapable_traps_loop(b, piece, options, i + 1,
                                               allowed, dbg)
             ELSE avoid_inescapable_traps_loop(b, piece, options, i + 1,
                                               Append(allowed, col), dbg)

\* AvoidInescapableTraps::prune_from
AvoidInescapableTraps_prune_from(b, piece, options, dbg) ==
    avoid_inescapable_traps_loop(b, piece, options, 1, <<>>, dbg)

\* Board::all_future_boards(piece): the boards after placing piece in each
\* valid move, in the order of valid_moves
all_future_boards(b, piece, dbg) ==
    [i \in 1 .. Len(valid_moves(b)) |->
        place(b, valid_moves(b)[i], piece, dbg).board]

\* SearchForWin::has_guaranteed_win below its assertion: all() over the
\* enemy's boards of any() over the own boards at depth - 1.  Neither
\* iterator looks at the winner of the enemy's board.
RECURSIVE has_guaranteed_win(_, _, _, _)
has_guaranteed_win(b, piece, depth, dbg) ==
    IF has_winner(b) = piece THEN TRUE
    ELSE IF depth = 0 THEN FALSE
    ELSE LET enemy_moves == all_future_boards(b, opponent(piece), dbg)
         IN  \A i \in DOMAIN enemy_moves :
                LET our_moves == all_future_boards(enemy_moves[i], piece, dbg)
                IN  \E j \in DOMAIN our_moves :
                       has_guaranteed_win(our_moves[j], piece, depth - 1, dbg)

\* assert!(board.next_player() == self.piece.opponent()) with the assertion
\* inside next_player.  Every board of one level of the search holds the
\* same number of pieces of each colour, so the assertion of the recursive
\* calls passes exactly when it passes for the first board.
search_assert(b, piece) ==
    next_player_assert(b) /\ next_player(b) = opponent(piece)

\* Minimum number of pieces before SearchForWin looks at the board
MIN_PIECES_PLAYED == 20

\* SearchForWin::choose, the loop from candidate i on
RECURSIVE search_for_win_loop(_, _, _, _, _, _)
search_for_win_loop(b, piece, depth, options, i, dbg) ==
    IF i > Len(options) THEN Value(NoMove)
    ELSE LET next == place(b, options[i], piece, dbg).board
         IN  IF ~search_assert(next, piece) THEN QueryPanic
             ELSE IF has_guaranteed_win(next, piece, depth, dbg)
             THEN Value(SomeMove(options[i]))
             ELSE search_for_win_loop(b, piece, depth, options, i + 1, dbg)

\* SearchForWin::choose
SearchForWin_choose(b, piece, depth, options, dbg) ==
    IF num_pieces_played(b) < MIN_PIECES_PLAYED THEN Value(NoMove)
    ELSE search_for_win_loop(b, piece, depth, options, 1, dbg)

\* ------------------------------------------------------------------------
\* src/search_for_win.rs.  Option<bool> is one of three strings.
SomeTrue == "Some(true)"
SomeFalse == "Some(false)"

\* SearchForWinCacheEntry
SearchForWinCacheEntry(depth, verdict) ==
    [depth_searched_at |-> depth, forced_win |-> verdict]

\* HashMap::new(): the table is a function from boards to entries
EmptyTable == [x \in {} |-> None]

\* An insert that stores nothing
insert_nothing(t, b, entry) == t

\* HashMap::insert(board, entry)
insert(t, b, entry) ==
    [x \in DOMAIN t \cup {b} |-> IF x = b THEN entry ELSE t[x]]

\* What has_guaranteed_win hands back: the verdict, the table it leaves,
\* and whether an assertion failed
Verdict(v, t) == [panic |-> FALSE, res |-> v, table |-> t]
SearchPanic(t) == [panic |-> TRUE, res |-> None, table |-> t]

\* The cache lookup of has_guaranteed_win: the verdict it returns, or
\* "fall through" when the search of the board has to go on
FallThrough == "fall through"

\* The lookup that never searches a board again once it has an entry
lookup_never_deepens(t, b, depth) ==
    IF b \notin DOMAIN t THEN FallThrough ELSE t[b].forced_win

\* The lookup that finds no entry
lookup_nothing(t, b, depth) == FallThrough

lookup(t, b, depth) ==
    IF b \notin DOMAIN t THEN FallThrough
    ELSE IF t[b].forced_win = SomeTrue THEN SomeTrue
    ELSE IF t[b].forced_win = SomeFalse THEN SomeFalse
    ELSE IF t[b].depth_searched_at >= depth THEN None
    ELSE FallThrough

\* The insert that stores no-forced-win where the search bottomed out
insert_unknown_as_loss(t, b, depth) ==
    Verdict(None, insert(t, b, SearchForWinCacheEntry(0, SomeFalse)))

\* The insert of an unknown verdict and the two assertions on the entry it
\* replaces
insert_unknown(t, b, depth) ==
    LET replaced == insert(t, b, SearchForWinCacheEntry(depth, None))
    IN  IF b \in DOMAIN t /\ ~(/\ t[b].depth_searched_at < depth
                             /\ t[b].forced_win = None)
        THEN SearchPanic(replaced)
        ELSE Verdict(None, replaced)

RECURSIVE SearchForWinCache_has_guaranteed_win(_, _, _, _, _, _)
RECURSIVE enemy_moves_loop(_, _, _, _, _, _, _)
RECURSIVE responses_loop(_, _, _, _, _, _, _, _, _)

\* SearchForWinCache::has_guaranteed_win, `for col in responses` from
\* response j on, for the enemy's move i
responses_loop(t, b, piece, depth, moves, i, responses, j, dbg) ==
    IF j > Len(responses)
    THEN Verdict(SomeFalse, insert(t, b, SearchForWinCacheEntry(0, SomeFalse)))
    ELSE LET enemy_board == place(b, moves[i], opponent(piece), dbg).board
             r == SearchForWinCache_has_guaranteed_win(
                      t, enemy_board, piece, depth - 1, responses[j], dbg)
         IN  IF r.panic THEN r
             ELSE IF r.res = None THEN insert_unknown(r.table, b, depth)
             ELSE IF r.res = SomeTrue
             THEN enemy_moves_loop(r.table, b, piece, depth, moves, i + 1, dbg)
             ELSE responses_loop(r.table, b, piece, depth, moves, i,
                                 responses, j + 1, dbg)

\* SearchForWinCache::has_guaranteed_win, `for enemy_board in enemy_moves`
\* from move i on, and the insert of Some(true) after the loop
enemy_moves_loop(t, b, piece, depth, moves, i, dbg) ==
    IF i > Len(moves)
    THEN Verdict(SomeTrue, insert(t, b, SearchForWinCacheEntry(0, SomeTrue)))
    ELSE LET enemy_board == place(b, moves[i], opponent(piece), dbg).board
         IN  IF has_winner(enemy_board) = opponent(piece)
             THEN Verdict(SomeFalse, t)
             ELSE responses_loop(t, b, piece, depth, moves, i,
                                 valid_moves(enemy_board), 1, dbg)

\* SearchForWinCache::has_guaranteed_win(prior, depth, move_to_test) on the
\* table t
SearchForWinCache_has_guaranteed_win(t, prior, piece, depth, move_to_test, dbg) ==
    IF ~(next_player_assert(prior) /\ next_player(prior) = piece)
    THEN SearchPanic(t)
    ELSE LET b == place(prior, move_to_test, piece, dbg).board
         IN  IF has_winner(b) = piece THEN Verdict(SomeTrue, t)
             ELSE IF depth = 0 THEN Verdict(None, t)
             ELSE IF lookup(t, b, depth) # FallThrough
             THEN Verdict(lookup(t, b, depth), t)
             ELSE enemy_moves_loop(t, b, piece, depth, valid_moves(b), 1, dbg)

RECURSIVE search_for_win_cache_loop(_, _, _, _, _, _, _)

\* SearchForWinCache::choose, candidate i: r is what
\* self.has_guaranteed_win(board, self.depth, *col) returned
search_for_win_cache_verdict(b, piece, depth, options, i, dbg, r) ==
    IF r.panic THEN [panic |-> TRUE, value |-> NoMove, table |-> r.table]
    ELSE IF r.res = SomeTrue
    THEN [panic |-> FALSE, value |-> SomeMove(options[i]), table |-> r.table]
    ELSE search_for_win_cache_loop(r.table, b, piece, depth, options, i + 1,
                                   dbg)

\* SearchForWinCache::choose, the loop from candidate i on
search_for_win_cache_loop(t, b, piece, depth, options, i, dbg) ==
    IF i > Len(options) THEN [panic |-> FALSE, value |-> NoMove, table |-> t]
    ELSE search_for_win_cache_verdict(
             b, piece, depth, options, i, dbg,
             SearchForWinCache_has_guaranteed_win(t, b, piece, depth,
                                                  options[i], dbg))

\* SearchForWinCache::choose
SearchForWinCache_choose(t, b, piece, depth, options, dbg) ==
    search_for_win_cache_loop(t, b, piece, depth, options, 1, dbg)

\* ------------------------------------------------------------------------
\* enum Strategy { Layer(Box<dyn StrategyLayer>), Decision(Box<dyn
\* StrategyDecider>) }: a stage is its variant, the policy's name, and the
\* policy's fields (depth is 0 for a policy without one)
Layer(name, piece) ==
    [kind |-> "Layer", name |-> name, piece |-> piece, depth |-> 0]
Decision(name, piece, depth) ==
    [kind |-> "Decision", name |-> name, piece |-> piece, depth |-> depth]

\* strategy_layer.prune_from(board, &options), by the policy of the stage
prune_from(stage, b, options, dbg) ==
    IF stage.name = "ThreeInARow"
    THEN ThreeInARow_prune_from(b, stage.piece, options, dbg)
    ELSE IF stage.name = "AvoidTraps"
    THEN AvoidTraps_prune_from(b, stage.piece, options, dbg)
    ELSE AvoidInescapableTraps_prune_from(b, stage.piece, options, dbg)

\* strategy_decider.choose(board, &options), by the policy of the stage; t
\* is the table of the stage, which only SearchForWinCache reads and writes
choose(stage, t, b, options, dbg) ==
    IF stage.name = "SearchForWinCache"
    THEN SearchForWinCache_choose(t, b, stage.piece, stage.depth, options, dbg)
    ELSE [table |-> t] @@
         (IF stage.name = "SearchForWin"
          THEN SearchForWin_choose(b, stage.piece, stage.depth, options, dbg)
          ELSE IF stage.name = "Setup"
          THEN Setup_choose(b, stage.piece, options, dbg)
          ELSE TriesToWin_choose(b, stage.piece, options, dbg))

\* What evaluate_options hands back: the options it returns (none when it
\* panicked), the tables of its stages, and the stages it invoked, each with
\* the options it was given and what it returned
Evaluated(panicked, options, ts, invoked) ==
    [panic |-> panicked, options |-> options, tables |-> ts,
     invoked |-> invoked]
Invoked(i, options, returned) ==
    [stage |-> i, options |-> options, returned |-> returned]

\* The Layer arm with its test dropped: options = new_options
always_replaced(options, new_options) == new_options

\* The Layer arm of evaluate_options:
\* if !new_options.is_empty() { options = new_options }
replaced(options, new_options) ==
    IF new_options # <<>> THEN new_options ELSE options

\* The Decision arm returning the options it was given
short_circuit_all(options, choice) == options

\* The Decision arm of evaluate_options: return vec![choice]
short_circuit(options, choice) == <<choice>>

RECURSIVE evaluate_loop(_, _, _, _, _, _, _)

\* The Layer arm of the match in evaluate_options and the test that follows
\* it, r being what prune_from returned
Layer_arm(strategies, ts, b, options, i, invoked, dbg, r) ==
    LET new_options == replaced(options, r.value)
        now == Append(invoked, Invoked(i, options, r.value))
    IN  IF r.panic
        THEN Evaluated(TRUE, <<>>, ts,
                       Append(invoked, Invoked(i, options, <<>>)))
        ELSE IF Len(new_options) = 1
        THEN Evaluated(FALSE, new_options, ts, now)
        ELSE evaluate_loop(strategies, ts, b, new_options, i + 1, now, dbg)

\* The Decision arm of the match in evaluate_options and the test that
\* follows it, r being what choose returned
Decision_arm(strategies, ts, b, options, i, invoked, dbg, r) ==
    LET now == Append(invoked, Invoked(i, options, r.value))
        after == [ts EXCEPT ![i] = r.table]
    IN  IF r.panic
        THEN Evaluated(TRUE, <<>>, after,
                       Append(invoked, Invoked(i, options, NoMove)))
        ELSE IF r.value # NoMove
        THEN IF contains(options, r.value[1])
             THEN Evaluated(FALSE, short_circuit(options, r.value[1]),
                            after, now)
             ELSE Evaluated(TRUE, <<>>, after, now)
        ELSE IF Len(options) = 1
        THEN Evaluated(FALSE, options, after, now)
        ELSE evaluate_loop(strategies, after, b, options, i + 1, now, dbg)

\* StrategyStack::evaluate_options, `for strategy in &self.strategies` from
\* stage i on
evaluate_loop(strategies, ts, b, options, i, invoked, dbg) ==
    IF i > Len(strategies) THEN Evaluated(FALSE, options, ts, invoked)
    ELSE IF strategies[i].kind = "Layer"
    THEN Layer_arm(strategies, ts, b, options, i, invoked, dbg,
                   prune_from(strategies[i], b, options, dbg))
    ELSE Decision_arm(strategies, ts, b, options, i, invoked, dbg,
                      choose(strategies[i], ts[i], b, options, dbg))

\* StrategyStack::evaluate_options
evaluate_options(strategies, ts, b, dbg) ==
    IF valid_moves(b) = <<>> THEN Evaluated(TRUE, <<>>, ts, <<>>)
    ELSE evaluate_loop(strategies, ts, b, valid_moves(b), 1, <<>>, dbg)

\* ------------------------------------------------------------ strategy calls
\* The boards a strategy is asked about: positions of games, by their
\* short strings
\* Red to move, 30 pieces, columns 0, 3, 4 playable: Red has no winning
\* move, Blue wins in column 0 and in column 4  "!/ RR  BB/ BRB RR/RBRRBBR/BBBRBRR/RRBBBRB"
RED_TRAPPED ==
    <<"!", "/", " ", "R", "R", " ", " ", "B", "B", "/", " ", "B", "R", "B",
    " ", "R", "R", "/", "R", "B", "R", "R", "B", "B", "R", "/", "B", "B",
    "B", "R", "B", "R", "R", "/", "R", "R", "B", "B", "B", "R", "B">>

\* Red to move, 28 pieces, columns 2, 4, 5 playable: nobody has a winning
\* move  "!/RR R  B/BB B BR/RR RRBR/BR BBRB/BRBBRBR"
RED_SETUP ==
    <<"!", "/", "R", "R", " ", "R", " ", " ", "B", "/", "B", "B", " ", "B",
    " ", "B", "R", "/", "R", "R", " ", "R", "R", "B", "R", "/", "B", "R",
    " ", "B", "B", "R", "B", "/", "B", "R", "B", "B", "R", "B", "R">>

\* Blue to move, 29 pieces, columns 2, 5 playable: Blue has no winning
\* move, Red wins in column 2 and in column 5  "!/RR BB B/RR RR B/BB RR R/BBBRRBR/BRRBBRB"
BLUE_TRAPPED ==
    <<"!", "/", "R", "R", " ", "B", "B", " ", "B", "/", "R", "R", " ", "R",
    "R", " ", "B", "/", "B", "B", " ", "R", "R", " ", "R", "/", "B", "B",
    "B", "R", "R", "B", "R", "/", "B", "R", "R", "B", "B", "R", "B">>

\* Red to move, 20 pieces: Red wins in column 2, Blue wins in column 4  "!/   B B/   R B/  RBBBR/  RBRRB/ RRBBRR"
REPLY_WINS ==
    <<"!", "/", " ", " ", " ", "B", " ", "B", "/", " ", " ", " ", "R", " ",
    "B", "/", " ", " ", "R", "B", "B", "B", "R", "/", " ", " ", "R", "B",
    "R", "R", "B", "/", " ", "R", "R", "B", "B", "R", "R">>

\* Red to move, 20 pieces: Blue wins in column 2, Red wins in column 4  "!/ B B/ B R/RBBBR/BRRBR/RRBBRR"
BLOCK_FIRST ==
    <<"!", "/", " ", "B", " ", "B", "/", " ", "B", " ", "R", "/", "R", "B",
    "B", "B", "R", "/", "B", "R", "R", "B", "R", "/", "R", "R", "B", "B",
    "R", "R">>

StrategyStrings ==
    {RED_TRAPPED, RED_SETUP, BLUE_TRAPPED, FIVE_ROWS, BLOCK_FIRST}

StrategyBoards(dbg) == {from(s, dbg).board : s \in StrategyStrings}

\* The depths of SearchForWin::new(piece, depth) and
\* SearchForWinCache::new(piece, depth)
MaxDepth == 1

\* StrategyStack::new(strategies) for the strategies build_strategy_stack
\* can push for a piece
Stacks(piece) ==
    {<<>>,
     <<Layer("AvoidTraps", piece)>>,
     <<Layer("AvoidInescapableTraps", piece), Layer("AvoidTraps", piece),
       Layer("ThreeInARow", piece)>>,
     <<Decision("TriesToWin", piece, 0), Layer("AvoidTraps", piece),
       Decision("Setup", piece, 0), Layer("ThreeInARow", piece)>>,
     <<Layer("ThreeInARow", piece), Decision("Setup", piece, 0),
       Decision("TriesToWin", piece, 0)>>,
     <<Decision("SearchForWinCache", piece, MaxDepth),
       Layer("ThreeInARow", piece)>>,
     <<Layer("AvoidTraps", piece),
       Decision("SearchForWinCache", piece, MaxDepth),
       Decision("SearchForWin", piece, MaxDepth)>>}

\* The piece a stack plays: that of its stages, and the player to move for a
\* stack without stages
stack_piece(strategies, b) ==
    IF strategies = <<>> THEN next_player(b) ELSE strategies[1].piece

\* A strategy is built for a piece and is asked about a board where that
\* piece is to move
StackInit ==
    /\ debug_assertions \in BOOLEAN
    /\ board \in StrategyBoards(debug_assertions)
    /\ stack \in Stacks(next_player(board))
    /\ tables = [i \in 1 .. Len(stack) |-> EmptyTable]
    /\ cache = EmptyCache
    /\ asked = 0
    /\ pc = "strategy"
    /\ call = NoCall
    /\ placed = 0

\* moves.choose(rng).copied(): None of no moves, else any one of them
choose_rng(moves) ==
    IF moves = <<>> THEN {NoMove}
    ELSE {SomeMove(moves[i]) : i \in 1 .. Len(moves)}

\* The record of a call on a strategy
Asked(op, args, panicked, result) ==
    [op |-> op, args |-> args, prior |-> board, panic |-> panicked,
     violated |-> FALSE, result |-> result]

\* The caller was handed a position and has not asked about it yet: it asks
\* the strategy once about each position it is handed
Handed ==
    /\ pc = "strategy"
    /\ call.op = "new"

\* The caller is handed a position where the stack's piece is to move: the
\* next one of this game, or one of a later game, which may be a position it
\* was handed before
NextBoard ==
    /\ pc = "strategy"
    /\ ~call.panic
    /\ \E b \in StrategyBoards(debug_assertions) :
          /\ next_player(b) = stack_piece(stack, b)
          /\ board' = b
    /\ call' = NoCall
    /\ UNCHANGED <<debug_assertions, pc, placed, stack, tables, cache, asked>>

\* What the caller of evaluate_options sees, r being what it returned
EvaluateOptions_returns(r) ==
    /\ call' = Asked("evaluate_options", <<>>, r.panic,
                     [options |-> r.options, invoked |-> r.invoked])
    /\ tables' = r.tables

\* stack.evaluate_options(&board)
EvaluateOptions ==
    /\ Handed
    /\ EvaluateOptions_returns(evaluate_options(stack, tables, board,
                                                debug_assertions))
    /\ UNCHANGED <<debug_assertions, board, pc, placed, stack, cache, asked>>

\* StrategyStack::play after `let moves = self.evaluate_options(board)`
StackPlay_chooses(r) ==
    /\ \E choice \in choose_rng(r.options) :
          call' = Asked("play", <<>>, r.panic,
                        [options |-> r.options, choice |-> choice])
    /\ tables' = r.tables

\* Connect4AI::play of the StrategyStack
StackPlay ==
    /\ Handed
    /\ StackPlay_chooses(evaluate_options(stack, tables, board,
                                          debug_assertions))
    /\ UNCHANGED <<debug_assertions, board, pc, placed, stack, cache, asked>>

\* The else branch of StrategyCache::play after
\* `let result = self.stack.evaluate_options(board)`
CachePlay_miss(r) ==
    /\ \E choice \in choose_rng(r.options) :
          call' = Asked("cache_play", <<"miss">>, r.panic,
                        [options |-> r.options, choice |-> choice])
    /\ tables' = r.tables
    /\ cache' = IF r.panic THEN cache ELSE insert(cache, board, r.options)

\* Connect4AI::play of the StrategyCache around the stack: a hit draws from
\* the stored options; a miss evaluates, draws, and stores the options
\* (the read guard of the `if let` is taken to be released before the else
\* branch takes the write lock, as in the 2024 edition)
CachePlay ==
    /\ Handed
    /\ IF board \in DOMAIN cache
       THEN /\ \E choice \in choose_rng(cache[board]) :
                  call' = Asked("cache_play", <<"hit">>, FALSE,
                                [options |-> cache[board], choice |-> choice])
            /\ UNCHANGED <<tables, cache, asked>>
       ELSE CachePlay_miss(evaluate_options(stack, tables, board,
                                            debug_assertions))
    /\ UNCHANGED <<debug_assertions, board, pc, placed, stack, asked>>

StackNext ==
    \/ NextBoard
    \/ EvaluateOptions
    \/ StackPlay
    \/ CachePlay

StackSpec == StackInit /\ [][StackNext]_vars

\* ------------------------------------------------------------ search tests
\* Red to move after columns 3, 6, 2, 3: a piece next to Red's two makes
\* three in the bottom row with both ends free  "!////   B/  RR  B"
TWO_MOVE_WIN ==
    <<"!", "/", "/", "/", "/", " ", " ", " ", "B", "/", " ", " ", "R", "R",
    " ", " ", "B">>

\* Red to move, 20 pieces, no winning move: after column 3 every reply of
\* Blue leaves Red a winning move  "!/  B  B/  R  B/R R  R/RBBBRR/BRRRBBB"
FORCED_TWENTY ==
    <<"!", "/", " ", " ", "B", " ", " ", "B", "/", " ", " ", "R", " ", " ",
    "B", "/", "R", " ", "R", " ", " ", "R", "/", "R", "B", "B", "B", "R",
    "R", "/", "B", "R", "R", "R", "B", "B", "B">>

\* Red to move, 34 pieces, no line of four: column 0 holds four pieces and is
\* the only valid move, every other column holds five; after Red's move
\* valid_moves is empty  "!/ RBBRRB/BBRRBBR/RRBBRRB/BBRRBBR/RRBBRRB"
LAST_MOVE ==
    <<"!", "/", " ", "R", "B", "B", "R", "R", "B", "/", "B", "B", "R", "R",
    "B", "B", "R", "/", "R", "R", "B", "B", "R", "R", "B", "/", "B", "B",
    "R", "R", "B", "B", "R", "/", "R", "R", "B", "B", "R", "R", "B">>

\* Red to move, 6 pieces: Red wins in column 0  "!///RB/RB/RB"
EARLY_WIN ==
    <<"!", "/", "/", "/", "R", "B", "/", "R", "B", "/", "R", "B">>

SearchStrings ==
    {TWO_MOVE_WIN, REPLY_WINS, FORCED_TWENTY, SEARCH_TEST, LAST_MOVE,
     EARLY_WIN}

\* The boards of the tests of the two searches: those of the strategy calls,
\* the empty board, the board of tests::search_for_win, and five more
SearchBoards(dbg) ==
    {EMPTY} \cup {from(s, dbg).board : s \in SearchStrings}
    \cup StrategyBoards(dbg)

\* tests::search_for_win: a board, and no strategy yet
SearchInit ==
    /\ debug_assertions \in BOOLEAN
    /\ board \in SearchBoards(debug_assertions)
    /\ pc = "search"
    /\ call = NoCall
    /\ placed = 0
    /\ NoStrategy

\* let strategy = SearchForWin::new(piece, depth) (or SearchForWinCache);
\* strategy.choose(&board, &board.valid_moves()): as tests::search_for_win
\* does, for the player to move
Choose ==
    /\ pc = "search"
    /\ call.op = "new"
    /\ \E name \in {"SearchForWin", "SearchForWinCache"}, depth \in 0 .. MaxDepth :
          LET r == choose(Decision(name, next_player(board), depth), EmptyTable,
                          board, valid_moves(board), debug_assertions)
          IN  call' = Asked("choose", <<name, depth>>, r.panic, r.value)
    /\ UNCHANGED <<debug_assertions, board, pc, placed, stack, tables, cache, asked>>

\* One iteration of the loop of SearchForWin::choose:
\* self.has_guaranteed_win(&board.place(col, piece), depth), a bool
SearchForWin_iteration(b, piece, depth, col, dbg) ==
    LET next == place(b, col, piece, dbg).board
    IN  IF ~search_assert(next, piece) THEN QueryPanic
        ELSE Value(has_guaranteed_win(next, piece, depth, dbg))

\* One iteration of the loop of SearchForWinCache::choose on a new table:
\* self.has_guaranteed_win(board, depth, col), an Option<bool>
SearchForWinCache_iteration(b, piece, depth, col, dbg) ==
    LET r == SearchForWinCache_has_guaranteed_win(EmptyTable, b, piece, depth,
                                                  col, dbg)
    IN  [panic |-> r.panic, value |-> r.res]

\* has_guaranteed_win of a new SearchForWin or SearchForWinCache for the
\* player to move, asked about a valid move
HasGuaranteedWin ==
    /\ pc = "search"
    /\ call.op = "new"
    /\ \E name \in {"SearchForWin", "SearchForWinCache"},
          depth \in 0 .. MaxDepth, i \in 1 .. Len(valid_moves(board)) :
          LET col == valid_moves(board)[i]
              r == IF name = "SearchForWin"
                   THEN SearchForWin_iteration(board, next_player(board),
                                               depth, col, debug_assertions)
                   ELSE SearchForWinCache_iteration(board, next_player(board),
                                                    depth, col,
                                                    debug_assertions)
          IN  call' = Asked("has_guaranteed_win", <<name, depth, col>>,
                            r.panic, r.value)
    /\ UNCHANGED <<debug_assertions, board, pc, placed, stack, tables, cache, asked>>

SearchNext ==
    \/ Choose
    \/ HasGuaranteedWin

SearchSpec == SearchInit /\ [][SearchNext]_vars

\* ---------------------------------------------------------------- claims
\* The stages of the last evaluate_options call that returned: all that were
\* invoked, but for the last one when the call panicked
InvokedStages == call.result.invoked
Completed ==
    IF call.panic THEN Len(InvokedStages) - 1 ELSE Len(InvokedStages)

\* The options evaluate_options holds after the k-th stage it invoked: those
\* it hands to the next stage, or returns
OptionsAfter(k) ==
    IF k < Len(InvokedStages) THEN InvokedStages[k + 1].options
    ELSE call.result.options

\* C12: when a Layer stage of evaluate_options returns no option, the options
\* stay as they were before the stage and the next stage is invoked on them
\* (or they are returned); when it returns options, they replace the options.
C12_LayerFailOpen ==
    call.op = "evaluate_options" =>
        \A k \in 1 .. Completed :
            stack[InvokedStages[k].stage].kind = "Layer" =>
                /\ InvokedStages[k].returned = <<>> =>
                      /\ OptionsAfter(k) = InvokedStages[k].options
                      /\ (/\ InvokedStages[k].stage < Len(stack)
                          /\ Len(OptionsAfter(k)) > 1) =>
                            /\ k < Len(InvokedStages)
                            /\ InvokedStages[k + 1].stage =
                                  InvokedStages[k].stage + 1
                /\ InvokedStages[k].returned # <<>> =>
                      OptionsAfter(k) = InvokedStages[k].returned

C12_Witness ==
    /\ call.op = "evaluate_options"
    /\ ~call.panic
    /\ \E k \in 1 .. Len(InvokedStages) - 1 :
          /\ stack[k].kind = "Layer"
          /\ InvokedStages[k].returned = <<>>
          /\ Len(InvokedStages[k].options) > 1
          /\ InvokedStages[k + 1].options = InvokedStages[k].options
    /\ \E k \in 1 .. Len(InvokedStages) :
          /\ stack[k].kind = "Layer"
          /\ InvokedStages[k].returned # <<>>
          /\ InvokedStages[k].returned # InvokedStages[k].options

\* C13: evaluate_options invokes its stages in their order; the first
\* Decision stage that returns a move ends the evaluation: no later stage is
\* invoked and the result is that move alone.  A Decision stage that returns
\* None leaves the options as they were, and the next stage is invoked on
\* them (or they are returned).
C13_DecisionShortCircuit ==
    call.op = "evaluate_options" =>
        /\ \A k \in 1 .. Len(InvokedStages) : InvokedStages[k].stage = k
        /\ \A k \in 1 .. Completed :
              stack[k].kind = "Decision" =>
                  /\ InvokedStages[k].returned # NoMove =>
                        /\ k = Len(InvokedStages)
                        /\ call.result.options = InvokedStages[k].returned
                  /\ InvokedStages[k].returned = NoMove =>
                        /\ OptionsAfter(k) = InvokedStages[k].options
                        /\ (k < Len(stack) /\ Len(OptionsAfter(k)) > 1) =>
                              k < Len(InvokedStages)

C13_Witness ==
    /\ call.op = "evaluate_options"
    /\ ~call.panic
    /\ Len(InvokedStages) < Len(stack)
    /\ Len(InvokedStages[Len(InvokedStages)].options) > 1
    /\ stack[Len(InvokedStages)].kind = "Decision"
    /\ InvokedStages[Len(InvokedStages)].returned # NoMove
    /\ \E k \in 1 .. Len(InvokedStages) - 1 :
          /\ stack[k].kind = "Decision"
          /\ InvokedStages[k].returned = NoMove

\* A board on which the game is not over: nobody has a line of four and some
\* cell is empty
NonTerminal(b) == has_winner(b) = None /\ PiecesOf(b, Empty) > 0

\* C14: on a board where the game is not over, evaluate_options of a stack
\* for the player to move does not panic (neither on its own assertions nor
\* in a policy) and returns at least one option, each of them one of
\* valid_moves.
C14_NonEmptySubset ==
    (call.op = "evaluate_options" /\ NonTerminal(call.prior)) =>
        /\ ~call.panic
        /\ call.result.options # <<>>
        /\ \A i \in 1 .. Len(call.result.options) :
              contains(valid_moves(call.prior), call.result.options[i])

\* evaluate_options without `if options.len() == 1 { return options; }`:
\* every stage is run, up to a Decision stage that returns a move
RECURSIVE Pipeline(_, _, _, _, _, _)
Pipeline(strategies, ts, b, options, i, dbg) ==
    IF i > Len(strategies) THEN [panic |-> FALSE, options |-> options]
    ELSE IF strategies[i].kind = "Layer"
    THEN LET r == prune_from(strategies[i], b, options, dbg)
         IN  IF r.panic THEN [panic |-> TRUE, options |-> <<>>]
             ELSE Pipeline(strategies, ts, b, replaced(options, r.value),
                           i + 1, dbg)
    ELSE LET r == choose(strategies[i], ts[i], b, options, dbg)
         IN  IF r.panic THEN [panic |-> TRUE, options |-> <<>>]
             ELSE IF r.value = NoMove
             THEN Pipeline(strategies, [ts EXCEPT ![i] = r.table], b, options,
                           i + 1, dbg)
             ELSE IF contains(options, r.value[1])
             THEN [panic |-> FALSE, options |-> <<r.value[1]>>]
             ELSE [panic |-> TRUE, options |-> <<>>]

WholePipeline(strategies, ts, b, dbg) ==
    IF valid_moves(b) = <<>> THEN [panic |-> TRUE, options |-> <<>>]
    ELSE Pipeline(strategies, ts, b, valid_moves(b), 1, dbg)

\* C15: every evaluate_options call ends as the pipeline without the early
\* return ends on the same board and tables: both panic, or both return the
\* same options.
C15_EarlyReturnEquivalent ==
    [][call'.op = "evaluate_options" =>
          LET whole == WholePipeline(stack, tables, board, debug_assertions)
          IN  /\ whole.panic = call'.panic
              /\ whole.options = call'.result.options]_vars

\* The early return was taken with stages left to run
C15_Witness ==
    /\ call.op = "evaluate_options"
    /\ ~call.panic
    /\ Len(InvokedStages) < Len(stack)
    /\ Len(call.result.options) = 1
    /\ \/ stack[Len(InvokedStages)].kind = "Layer"
       \/ InvokedStages[Len(InvokedStages)].returned = NoMove
    /\ \E k \in Len(InvokedStages) + 1 .. Len(stack) :
          stack[k].kind = "Decision"

\* C16: play of the StrategyStack and of the StrategyCache never fails; on a
\* board with a legal move it returns Some(c) with c among the evaluated
\* options, and on a board with no legal move it returns None.
C16_PlayNoneOnlyWithoutMove ==
    call.op \in {"play", "cache_play"} =>
        /\ ~call.panic
        /\ IF valid_moves(call.prior) # <<>>
           THEN /\ call.result.choice # NoMove
                /\ contains(call.result.options, call.result.choice[1])
           ELSE call.result.choice = NoMove

\* C17: a set stored in the StrategyCache is never changed; a play that finds
\* the board stored draws from exactly the stored set and leaves the wrapped
\* stack alone; a play that does not find it stores the set the wrapped stack
\* computes on that query.
C17_CacheKeepsFirstSet ==
    [][/\ \A b \in DOMAIN cache : b \in DOMAIN cache' /\ cache'[b] = cache[b]
       /\ call'.op = "cache_play" =>
             IF board \in DOMAIN cache
             THEN /\ ~call'.panic
                  /\ call'.result.options = cache[board]
                  /\ call'.result.choice \in choose_rng(cache[board])
                  /\ cache' = cache
                  /\ tables' = tables
             ELSE LET r == evaluate_options(stack, tables, board,
                                            debug_assertions)
                  IN  IF r.panic THEN call'.panic /\ cache' = cache
                      ELSE /\ DOMAIN cache' = DOMAIN cache \cup {board}
                           /\ cache'[board] = r.options
                           /\ call'.result.choice \in choose_rng(r.options)]_vars

\* A play found the board stored, under a stack whose SearchForWinCache has
\* filled its table, and drew from the stored set
C17_Witness ==
    /\ call.op = "cache_play"
    /\ call.args = <<"hit">>
    /\ call.result.options = cache[call.prior]
    /\ contains(call.result.options, call.result.choice[1])
    /\ \E i \in 1 .. Len(stack) :
          stack[i].name = "SearchForWinCache" /\ tables[i] # EmptyTable

\* The boards one move of piece away from b, one per valid move
Moves(b, piece) ==
    {with_place(b, valid_moves(b)[i], piece, FALSE).board :
        i \in 1 .. Len(valid_moves(b))}

ImmediateWin(b, piece) ==
    \E next \in Moves(b, piece) : has_winner(next) = piece

\* It is piece's turn on b, nobody has won, piece has no immediately winning
\* move, and piece has a move after which every reply of the opponent leaves
\* the game open and piece an immediately winning response
TwoMoveWin(b, piece) ==
    /\ next_player_assert(b)
    /\ next_player(b) = piece
    /\ has_winner(b) = None
    /\ ~ImmediateWin(b, piece)
    /\ \E next \in Moves(b, piece) :
          \A reply \in Moves(next, opponent(piece)) :
             /\ has_winner(reply) = None
             /\ ImmediateWin(reply, piece)

\* C18: on a board with a two-move unstoppable win for the player to move,
\* choose of SearchForWin (20 pieces or more on the board) and of
\* SearchForWinCache (new table) returns a column at depth >= 1 and None at
\* depth 0.
C18_TwoMoveWinFound ==
    (/\ call.op = "choose"
     /\ TwoMoveWin(call.prior, next_player(call.prior))
     /\ call.args[1] = "SearchForWin" =>
            num_pieces_played(call.prior) >= MIN_PIECES_PLAYED)
    => /\ ~call.panic
       /\ call.args[2] >= 1 => call.result # NoMove
       /\ call.args[2] = 0 => call.result = NoMove

\* The same for SearchForWin alone, and for both searches at depth 0
SearchForWin_TwoMoveWinFound ==
    (call.op = "choose" /\ call.args[1] = "SearchForWin") => C18_TwoMoveWinFound

DepthZero_Declines ==
    (call.op = "choose" /\ call.args[2] = 0) => C18_TwoMoveWinFound

\* The position a has_guaranteed_win call is asked about: the board after
\* the searching player's move
Position ==
    with_place(call.prior, call.args[3], next_player(call.prior), FALSE).board

ReplyWins(b, piece) ==
    \E reply \in Moves(b, opponent(piece)) : has_winner(reply) = opponent(piece)

Win == IF call.args[1] = "SearchForWin" THEN TRUE ELSE SomeTrue

\* C19: when the searching player has not won the position, depth > 0, and
\* some reply of the opponent wins at once, the search (SearchForWin and
\* SearchForWinCache) never reports the position a win.
C19_ReplyWinsNeverWin ==
    (/\ call.op = "has_guaranteed_win"
     /\ ~call.panic
     /\ call.args[2] > 0
     /\ has_winner(Position) # next_player(call.prior)
     /\ ReplyWins(Position, next_player(call.prior)))
    => call.result # Win

\* The same for SearchForWinCache alone
SearchForWinCache_ReplyWinsNeverWin ==
    (call.op = "has_guaranteed_win" /\ call.args[1] = "SearchForWinCache")
    => C19_ReplyWinsNeverWin

\* What SearchForWinCache::has_guaranteed_win says, on a new table, of the
\* searching player's response col to the opponent's board
Response(enemy_board, piece, depth, col) ==
    SearchForWinCache_has_guaranteed_win(EmptyTable, enemy_board, piece, depth,
                                         col, FALSE).res

\* C20: SearchForWinCache reports a position unknown only if some reply of
\* the opponent has no response that evaluates to win at depth - 1 and has a
\* response that evaluates to unknown; a reply with a winning response is
\* survived wherever that response stands among the others.
C20_UnknownOnlyWithoutWin ==
    (/\ call.op = "has_guaranteed_win"
     /\ call.args[1] = "SearchForWinCache"
     /\ ~call.panic
     /\ call.args[2] >= 1
     /\ call.result = None)
    => LET piece == next_player(call.prior)
       IN  \E enemy_board \in Moves(Position, opponent(piece)) :
              LET responses == valid_moves(enemy_board)
                  res == [j \in 1 .. Len(responses) |->
                             Response(enemy_board, piece, call.args[2] - 1,
                                      responses[j])]
              IN  /\ \A j \in DOMAIN res : res[j] # SomeTrue
                  /\ \E j \in DOMAIN res : res[j] = None

\* piece completes four in a row from position b, where the opponent is to
\* move, within depth further moves of piece against every sequence of
\* replies: piece has won, or no reply ends the game for the opponent, there
\* is a reply, and after each reply piece has a move that forces the win in
\* depth - 1
RECURSIVE ForcedWin(_, _, _)
ForcedWin(b, piece, depth) ==
    \/ has_winner(b) = piece
    \/ /\ depth > 0
       /\ has_winner(b) = None
       /\ Moves(b, opponent(piece)) # {}
       /\ \A reply \in Moves(b, opponent(piece)) :
             /\ has_winner(reply) = None
             /\ \E next \in Moves(reply, piece) :
                   ForcedWin(next, piece, depth - 1)

\* C21: a win reported by the search (SearchForWin or SearchForWinCache) for
\* a candidate move is a forced win within the depth of the search; a
\* position where the opponent has no reply and nobody has won is never
\* reported a win.
C21_WinIsForced ==
    (/\ call.op = "has_guaranteed_win"
     /\ ~call.panic
     /\ call.result = Win)
    => ForcedWin(Position, next_player(call.prior), call.args[2])

\* The same where no reply of the opponent wins at once (the case of C19)
WinIsForced_NoReplyWins ==
    (/\ call.op = "has_guaranteed_win"
     /\ ~call.panic
     /\ ~ReplyWins(Position, next_player(call.prior)))
    => C21_WinIsForced

\* C22: on a board with fewer than 20 pieces choose of SearchForWin and of
\* SearchForWinCache returns None; with 20 pieces or more the search runs,
\* and returns the move that wins at once where there is one.
C22_ActivatesAtTwenty ==
    call.op = "choose" =>
        IF num_pieces_played(call.prior) < MIN_PIECES_PLAYED
        THEN ~call.panic /\ call.result = NoMove
        ELSE (~call.panic /\ ImmediateWin(call.prior, next_player(call.prior)))
             => call.result # NoMove

\* The same for SearchForWin alone
SearchForWin_ActivatesAtTwenty ==
    (call.op = "choose" /\ call.args[1] = "SearchForWin")
    => C22_ActivatesAtTwenty

\* The number of columns where piece's move on b makes four in a row
WinningColumns(b, piece) ==
    Cardinality({i \in 1 .. Len(valid_moves(b)) :
                    has_winner(with_place(b, valid_moves(b)[i], piece,
                                          FALSE).board) = piece})

\* After piece's move in column col, which does not win, some move of the
\* opponent wins outright or leaves the opponent more than one winning move
LetsOpponentTrap(b, col, piece) ==
    LET test_board == with_place(b, col, piece, FALSE).board
    IN  /\ has_winner(test_board) # piece
        /\ \E next_board \in Moves(test_board, opponent(piece)) :
              \/ has_winner(next_board) = opponent(piece)
              \/ WinningColumns(next_board, opponent(piece)) > 1

\* The invocations of the policy called name that returned
InvocationsOf(name) ==
    {k \in 1 .. Completed : stack[InvokedStages[k].stage].name = name}

\* C23: AvoidInescapableTraps::prune_from returns, in order, exactly the
\* candidates that win at once or after which no move of the opponent wins
\* outright or makes more than one winning move for the opponent.
C23_RemovesExactlyTraps ==
    call.op = "evaluate_options" =>
        \A k \in InvocationsOf("AvoidInescapableTraps") :
           LET keep(col) == ~LetsOpponentTrap(call.prior, col,
                                              stack[InvokedStages[k].stage].piece)
           IN  InvokedStages[k].returned
                  = SelectSeq(InvokedStages[k].options, keep)

\* Every candidate that wins at once is kept
AvoidInescapableTraps_KeepsWins ==
    call.op = "evaluate_options" =>
        \A k \in InvocationsOf("AvoidInescapableTraps") :
           \A i \in 1 .. Len(InvokedStages[k].options) :
              LET col == InvokedStages[k].options[i]
                  piece == stack[InvokedStages[k].stage].piece
              IN  has_winner(with_place(call.prior, col, piece, FALSE).board)
                     = piece
                  => contains(InvokedStages[k].returned, col)

\* piece's move in column col wins at once, or leaves the opponent no move
\* that wins at once
AvoidsTrap(b, col, piece) ==
    LET test_board == with_place(b, col, piece, FALSE).board
    IN  \/ has_winner(test_board) = piece
        \/ WinningColumns(test_board, opponent(piece)) = 0

AvoidTraps_FailsOpen ==
    /\ call.op = "evaluate_options"
    /\ ~call.panic
    /\ \E k \in InvocationsOf("AvoidTraps") :
          /\ InvokedStages[k].returned = <<>>
          /\ Len(InvokedStages[k].options) > 1
          /\ OptionsAfter(k) = InvokedStages[k].options

\* Placing piece in column col wins for piece, or placing the opponent's
\* piece there wins for the opponent
WinsOrBlocks(b, col, piece) ==
    \/ has_winner(with_place(b, col, piece, FALSE).board) = piece
    \/ has_winner(with_place(b, col, opponent(piece), FALSE).board)
          = opponent(piece)

\* C25: TriesToWin::choose returns the first candidate, in candidate order,
\* where its own piece wins or the opponent's piece would win, and None
\* exactly when there is no such candidate.
C25_FirstMatch ==
    call.op = "evaluate_options" =>
        \A k \in InvocationsOf("TriesToWin") :
           LET piece == stack[InvokedStages[k].stage].piece
               options == InvokedStages[k].options
               matches == {i \in 1 .. Len(options) :
                              WinsOrBlocks(call.prior, options[i], piece)}
           IN  InvokedStages[k].returned
                  = IF matches = {} THEN NoMove
                    ELSE SomeMove(options[CHOOSE i \in matches :
                                             \A j \in matches : i <= j])

\* TriesToWin returned a column that only blocks, a column that wins coming
\* later among the candidates
C25_Witness ==
    /\ call.op = "evaluate_options"
    /\ ~call.panic
    /\ \E k \in InvocationsOf("TriesToWin") :
          LET piece == stack[InvokedStages[k].stage].piece
              options == InvokedStages[k].options
              returned == InvokedStages[k].returned
          IN  /\ returned # NoMove
              /\ has_winner(with_place(call.prior, returned[1], piece,
                                       FALSE).board) # piece
              /\ \E i \in 1 .. Len(options) :
                    /\ has_winner(with_place(call.prior, options[i], piece,
                                             FALSE).board) = piece
                    /\ \E j \in 1 .. i - 1 : options[j] = returned[1]

\* TriesToWin declined: no candidate wins or blocks
TriesToWin_Declines ==
    /\ call.op = "evaluate_options"
    /\ ~call.panic
    /\ \E k \in InvocationsOf("TriesToWin") :
          /\ InvokedStages[k].returned = NoMove
          /\ Len(InvokedStages[k].options) > 1

\* C28: on a new table SearchForWinCache::has_guaranteed_win returns
\* Some(true) for a candidate column at a depth exactly when
\* SearchForWin::has_guaranteed_win returns true at that depth on the board
\* after the column is played.
C28_SameSemantics ==
    (/\ call.op = "has_guaranteed_win"
     /\ call.args[1] = "SearchForWinCache"
     /\ ~call.panic)
    => LET uncached == SearchForWin_iteration(
                           call.prior, next_player(call.prior), call.args[2],
                           call.args[3], debug_assertions)
       IN  /\ ~uncached.panic
           /\ call.result = SomeTrue <=> uncached.value = TRUE

\* The two searches agree wherever the cached one gives a definite verdict
\* and no reply of the opponent wins
SameSemantics_WhereDefinite ==
    (/\ call.op = "has_guaranteed_win"
     /\ call.args[1] = "SearchForWinCache"
     /\ ~call.panic
     /\ call.result # None
     /\ ~ReplyWins(Position, next_player(call.prior)))
    => LET uncached == SearchForWin_iteration(
                           call.prior, next_player(call.prior), call.args[2],
                           call.args[3], debug_assertions)
       IN  /\ ~uncached.panic
           /\ call.result = SomeTrue <=> uncached.value = TRUE

\* ------------------------------------------------------- one table, many calls
\* The largest depth one SearchForWinCache is asked to search at
TableDepth == 2

\* Largest number of calls the model follows on one SearchForWinCache
MaxAsked == 2

\* The positions one SearchForWinCache is asked about: a position of a game
\* and the positions two plies later where the game goes on (Board::from
\* gives the same board in a debug and in a release build)
TableRoot == from(RED_TRAPPED, FALSE).board

TwoPliesLater(b) ==
    {later \in UNION {Moves(next, opponent(next_player(b))) :
                         next \in {m \in Moves(b, next_player(b)) :
                                      has_winner(m) = None}} :
        has_winner(later) = None /\ valid_moves(later) # <<>>}

TableBoards == {TableRoot} \cup TwoPliesLater(TableRoot)

\* SearchForWinCache::new(piece, depth): one strategy with its new table
TableInit ==
    /\ debug_assertions \in BOOLEAN
    /\ board = TableRoot
    /\ stack = <<Decision("SearchForWinCache", next_player(board), TableDepth)>>
    /\ tables = <<EmptyTable>>
    /\ cache = EmptyCache
    /\ asked = 0
    /\ pc = "table"
    /\ call = NoCall
    /\ placed = 0

\* The record of a call on the strategy about the board b: its last
\* argument is the table the call found
TableAsked(op, b, args, panicked, result) ==
    [op |-> op, args |-> Append(args, tables[1]), prior |-> b,
     panic |-> panicked, violated |-> FALSE, result |-> result]

\* What the caller of choose sees, r being what it returned
TableChoose_returns(b, r) ==
    /\ call' = TableAsked("choose", b,
                          <<stack[1].name, stack[1].depth, valid_moves(b)>>,
                          r.panic, r.value)
    /\ tables' = <<r.table>>

\* strategy.choose(&board, &board.valid_moves()) on a position where the
\* strategy's piece is to move
TableChoose ==
    /\ pc = "table"
    /\ ~call.panic
    /\ asked < MaxAsked
    /\ asked' = asked + 1
    /\ \E b \in TableBoards :
          /\ board' = b
          /\ TableChoose_returns(b, choose(stack[1], tables[1], b,
                                           valid_moves(b), debug_assertions))
    /\ UNCHANGED <<debug_assertions, pc, placed, stack, cache>>

\* What the caller of has_guaranteed_win sees, r being what it returned
TableHasGuaranteedWin_returns(b, depth, col, r) ==
    /\ call' = TableAsked("has_guaranteed_win", b,
                          <<stack[1].name, depth, col>>, r.panic, r.res)
    /\ tables' = <<r.table>>

\* self.has_guaranteed_win(board, depth, col): the call choose makes for a
\* candidate at the strategy's depth, and the calls the search makes at the
\* depths below it
TableHasGuaranteedWin ==
    /\ pc = "table"
    /\ ~call.panic
    /\ asked < MaxAsked
    /\ asked' = asked + 1
    /\ \E b \in TableBoards, depth \in 0 .. stack[1].depth :
       \E i \in 1 .. Len(valid_moves(b)) :
          /\ board' = b
          /\ TableHasGuaranteedWin_returns(
                 b, depth, valid_moves(b)[i],
                 SearchForWinCache_has_guaranteed_win(
                     tables[1], b, stack[1].piece, depth, valid_moves(b)[i],
                     debug_assertions))
    /\ UNCHANGED <<debug_assertions, pc, placed, stack, cache>>

TableNext ==
    \/ TableChoose
    \/ TableHasGuaranteedWin

TableSpec == TableInit /\ [][TableNext]_vars

\* The table the last call found, and the table it left
Found == call.args[4]
Left == tables[1]

\* The table t without its entry for the board b
Without(t, b) == [x \in DOMAIN t \ {b} |-> t[x]]

\* The search of the position of the last call that looks at no entry for the
\* position itself
Searched ==
    SearchForWinCache_has_guaranteed_win(
        Without(Found, Position), call.prior, next_player(call.prior),
        call.args[2], call.args[3], debug_assertions)

\* What the last call did: it answered with the verdict v and left the table
\* as it found it, or it searched the position, with the verdict and the
\* entries of that search
AnsweredFromTable(v) == call.result = v /\ Left = Found
SearchedAgain(searched) ==
    /\ call.result = searched.res
    /\ Without(Left, Position) = Without(searched.table, Position)
    /\ Position \in DOMAIN searched.table
          => Left[Position] = searched.table[Position]

\* C26: has_guaranteed_win looks at its table only when the position is not
\* won and depth > 0; an entry with a definite verdict is returned as it is;
\* an unknown entry searched at the requested depth or deeper gives unknown
\* without a search; an unknown entry searched less deep, or no entry, gives
\* the search of the position.
C26_TableLookup ==
    (call.op = "has_guaranteed_win" /\ ~call.panic) =>
        IF has_winner(Position) = next_player(call.prior)
        THEN AnsweredFromTable(SomeTrue)
        ELSE IF call.args[2] = 0 THEN AnsweredFromTable(None)
        ELSE IF Position \in DOMAIN Found
                /\ Found[Position].forced_win # None
        THEN AnsweredFromTable(Found[Position].forced_win)
        ELSE IF Position \in DOMAIN Found
                /\ Found[Position].depth_searched_at >= call.args[2]
        THEN AnsweredFromTable(None)
        ELSE SearchedAgain(Searched)

\* The call found an unknown entry searched less deep than it was asked to
\* search, searched the position again and came to a definite verdict
C26_Witness ==
    /\ call.op = "has_guaranteed_win"
    /\ ~call.panic
    /\ Position \in DOMAIN Found
    /\ Found[Position].forced_win = None
    /\ Found[Position].depth_searched_at < call.args[2]
    /\ call.result # None
    /\ Left[Position].forced_win = call.result

\* The call found a definite entry and was asked to search less deep than
\* the search that made the entry
Lookup_DefiniteHit ==
    /\ call.op = "has_guaranteed_win"
    /\ ~call.panic
    /\ call.args[2] > 0
    /\ Position \in DOMAIN Found
    /\ Found[Position].forced_win # None
    /\ call.result = Found[Position].forced_win

\* The call found an unknown entry searched at least as deep as it was asked
Lookup_UnknownHit ==
    /\ call.op = "has_guaranteed_win"
    /\ ~call.panic
    /\ call.args[2] > 0
    /\ Position \in DOMAIN Found
    /\ Found[Position].forced_win = None
    /\ Found[Position].depth_searched_at >= call.args[2]
    /\ call.result = None

\* The call was asked at depth 0 about a position with a definite entry
Lookup_DepthZero ==
    /\ call.op = "has_guaranteed_win"
    /\ ~call.panic
    /\ call.args[2] = 0
    /\ Position \in DOMAIN Found
    /\ Found[Position].forced_win # None
    /\ call.result = None

\* The verdict of has_guaranteed_win on a new table for the position of the
\* last call, searched at the depth d
OnNewTable(d) ==
    SearchForWinCache_has_guaranteed_win(
        EmptyTable, call.prior, next_player(call.prior), d, call.args[3],
        debug_assertions).res

\* C27: a definite verdict has_guaranteed_win returns on a table that earlier
\* calls have filled is never the opposite of a definite verdict the search
\* of the position on a new table returns at any depth, and a position the
\* search on a new table proves a win at the requested depth is reported a
\* win on the filled table as well.
C27_TableIsSound ==
    (call.op = "has_guaranteed_win" /\ ~call.panic) =>
        /\ \A d \in 0 .. TableDepth :
              (call.result # None /\ OnNewTable(d) # None)
                  => call.result = OnNewTable(d)
        /\ OnNewTable(call.args[2]) = SomeTrue => call.result = SomeTrue

\* The call found an unknown entry for its position left by a less deep
\* search, and reported the win the search on a new table proves at the
\* requested depth
C27_Witness ==
    /\ call.op = "has_guaranteed_win"
    /\ ~call.panic
    /\ Position \in DOMAIN Found
    /\ Found[Position].forced_win = None
    /\ Found[Position].depth_searched_at < call.args[2]
    /\ OnNewTable(call.args[2]) = SomeTrue
    /\ call.result = SomeTrue

\* The call answered with a definite entry at a depth where the search on a
\* new table does not know
Table_KnowsMore ==
    /\ call.op = "has_guaranteed_win"
    /\ ~call.panic
    /\ Position \in DOMAIN Found
    /\ call.result # None
    /\ OnNewTable(call.args[2]) = None

\* C29: a call never changes or removes an entry with a definite verdict; an
\* unknown entry is replaced only by a definite verdict or by an unknown
\* entry searched strictly deeper; neither assertion on a replaced entry
\* fails.  (A call inserts for a board at most once: the board is looked at
\* at one depth only, and has an entry that is found from then on.)
C29_EntriesOnlyGain ==
    call.op \in {"has_guaranteed_win", "choose"} =>
        /\ ~call.panic
        /\ \A b \in DOMAIN Found :
              /\ b \in DOMAIN Left
              /\ Found[b].forced_win # None => Left[b] = Found[b]
              /\ (Found[b].forced_win = None /\ Left[b] # Found[b]) =>
                    \/ Left[b].forced_win # None
                    \/ Left[b].depth_searched_at > Found[b].depth_searched_at

\* A call replaced an unknown entry by an unknown entry searched deeper
C29_Witness ==
    /\ call.op \in {"has_guaranteed_win", "choose"}
    /\ ~call.panic
    /\ \E b \in DOMAIN Found :
          /\ Found[b].forced_win = None
          /\ Left[b].forced_win = None
          /\ Left[b].depth_searched_at > Found[b].depth_searched_at

\* A call that changed the table left a definite entry it found as it was
Entries_DefiniteKept ==
    /\ call.op \in {"has_guaranteed_win", "choose"}
    /\ ~call.panic
    /\ Left # Found
    /\ \E b \in DOMAIN Found : Found[b].forced_win # None

\* A call replaced an unknown entry by a definite verdict
Entries_UnknownToDefinite ==
    /\ call.op \in {"has_guaranteed_win", "choose"}
    /\ ~call.panic
    /\ \E b \in DOMAIN Found :
          /\ Found[b].forced_win = None
          /\ Left[b].forced_win # None

\* ------------------------------------------------- game loop, to its end
\* A game in progress with seven moves left at most: OPENING_TWENTY, then
\* eight moves in columns 0..2 without a line of four
OPENING_TWENTY_EIGHT == OPENING_TWENTY \o <<0, 0, 1, 1, 1, 2, 2, 2>>

\* game() after that opening, at the exit test before Red's move
EndGameInit ==
    /\ debug_assertions \in BOOLEAN
    /\ board = opening_board(OPENING_TWENTY_EIGHT, debug_assertions)
    /\ num_pieces_played(board) = Len(OPENING_TWENTY_EIGHT)
    /\ pc = "red_check"
    /\ call = NoCall
    /\ placed = 0
    /\ NoStrategy

\* The loop of game() runs on: a step that can be taken is taken
EndGameSpec == EndGameInit /\ [][GameNext]_vars /\ WF_vars(GameNext)

\* The player game() asks next
ToPlay == IF pc = "red_play" THEN Red ELSE Blue

\* The step of game() is a move: one piece more on the board, put by
\* with_place into a column that is not full without a failed assertion
OnePieceMore ==
    \E col \in 0 .. COLUMNS - 1 :
       LET r == with_place(board, col, ToPlay, debug_assertions)
       IN  /\ column_height(board, col) < ROWS
           /\ ~r.panic
           /\ ~r.violated
           /\ board' = r.board
           /\ num_pieces_played(board') = num_pieces_played(board) + 1

\* A step of game() where a player is asked is such a move, and any other
\* step leaves the board as it is
EveryMoveAddsOnePiece ==
    IF pc \in {"red_play", "yellow_play"} THEN OnePieceMore
    ELSE board' = board

\* Every stack of the provided policies, asked about the board, returns
\* without a failed assertion some of the board's valid moves
AnyStackPlays ==
    \A s \in Stacks(ToPlay) :
       LET r == evaluate_options(s, [i \in 1 .. Len(s) |-> EmptyTable], board,
                                 debug_assertions)
       IN  /\ ~r.panic
           /\ r.options # <<>>
           /\ \A i \in 1 .. Len(r.options) :
                 column_height(board, r.options[i]) < ROWS - 1

Game_EndsOnWin ==
    /\ pc = "done"
    /\ has_winner(board) # None
    /\ num_pieces_played(board) > Len(OPENING_TWENTY_EIGHT)

====
